---- MODULE Spec2Model ----
(***************************************************************************)
(* A model of the conversion engine of script.js: convertTools (with its   *)
(* inner normalizeSchema), convertMessageContent and convertMessages.      *)
(*                                                                         *)
(* JavaScript values are tagged records.  Strings are sequences of         *)
(* one-character strings, so that trimming and matching can be computed.   *)
(* Objects that the tool pipeline copies and writes live on a heap         *)
(* (a sequence of objects, an address is an index), so that a write to an  *)
(* object of the input is observable; transcript messages, which the code  *)
(* only reads, are plain trees.                                            *)
(***************************************************************************)
EXTENDS Integers, Sequences, FiniteSets, TLC

VARIABLES
    pc,                  \* position of the running function
    heap,                \* the objects of the tool pipeline
    inputHeap,           \* the heap as it was when convertTools was called
    inputTools,          \* argument of convertTools: a list of references
    convertedTools,      \* result of inputTools.map(...)
    inputMessages,       \* argument of convertMessages
    toolNameMap,         \* argument of convertMessages
    i,                   \* loop index of convertMessages (0-based, as in the code)
    convertedMessages,   \* const convertedMessages = []
    pendingToolCallIds,  \* const pendingToolCallIds = []
    clock,               \* the last value Date.now() returned
    form,                \* the input elements of the page, as the user filled them
    page,                \* the output elements of the page
    requestBody,         \* const requestBody of generateCurl
    previousRun          \* what an earlier convertMessages returned for the same arguments

vars == <<pc, heap, inputHeap, inputTools, convertedTools, inputMessages,
          toolNameMap, i, convertedMessages, pendingToolCallIds, clock,
          form, page, requestBody, previousRun>>

toolVars == <<heap, inputHeap, inputTools, convertedTools>>
msgVars == <<inputMessages, toolNameMap, i, convertedMessages, pendingToolCallIds, clock>>
pageVars == <<form, page, requestBody, previousRun>>

(***************************************************************************)
(* Bounds of the model.                                                    *)
(***************************************************************************)
MaxTools == 2
MaxDepth == 2
MaxMsgs == 3
MaxCalls == 2
MaxNow == 1

(***************************************************************************)
(* JavaScript values.                                                      *)
(***************************************************************************)
Undefined == [k |-> "undef"]
Null == [k |-> "null"]
Bool(b) == [k |-> "bool", b |-> b]
Num(n) == [k |-> "num", n |-> n]
Str(s) == [k |-> "str", s |-> s]
Arr(a) == [k |-> "arr", a |-> a]
Obj(f) == [k |-> "obj", f |-> f]
Ref(a) == [k |-> "ref", a |-> a]

EmptyObject == [key \in {} |-> Undefined]

\* the string literals of the source, character by character
S_object == <<"o", "b", "j", "e", "c", "t">>
S_array == <<"a", "r", "r", "a", "y">>
S_string == <<"s", "t", "r", "i", "n", "g">>
S_function == <<"f", "u", "n", "c", "t", "i", "o", "n">>
S_tool == <<"t", "o", "o", "l">>
S_unknown_function == <<"u", "n", "k", "n", "o", "w", "n", "_", "f", "u", "n", "c", "t", "i", "o", "n">>
S_empty == <<>>

\* NaN, and the TypeError that reading a property of null or undefined throws
NaN == [k |-> "nan"]
TypeError == [k |-> "TypeError"]

\* v is null or undefined
Nullish(v) == v.k \in {"null", "undef"}

\* !v
Truthy(v) ==
    CASE v.k = "undef" -> FALSE
      [] v.k = "null" -> FALSE
      [] v.k = "bool" -> v.b
      [] v.k = "num" -> v.n # 0
      [] v.k = "str" -> v.s # <<>>
      [] v.k = "nan" -> FALSE
      [] OTHER -> TRUE

\* typeof v === 'object'
TypeofObject(v) == v.k \in {"null", "arr", "obj", "ref"}

\* a || b
OrElse(a, b) == IF Truthy(a) THEN a ELSE b

\* o.key for the fields f of an object: a missing key reads as undefined
Get(f, key) == IF key \in DOMAIN f THEN f[key] ELSE Undefined

\* f with f.key = v
Put(f, key, v) == [x \in DOMAIN f \cup {key} |-> IF x = key THEN v ELSE f[x]]

\* the index keys "0", "1", ... of an array
IndexKeys(a) == {ToString(n - 1) : n \in 1..Len(a)}

ArrayFields(a) == [key \in IndexKeys(a) |-> a[CHOOSE n \in 1..Len(a) : ToString(n - 1) = key]]

\* the own enumerable fields of v, as the spread { ...v } and Object.keys(v) see them
FieldsOf(h, v) ==
    CASE v.k = "ref" -> h[v.a]
      [] v.k = "arr" -> ArrayFields(v.a)
      [] v.k = "obj" -> v.f
      [] OTHER -> EmptyObject

\* v.key, where v is known to be neither null nor undefined
Prop(h, v, key) == Get(FieldsOf(h, v), key)

(***************************************************************************)
(* convertTools and its inner normalizeSchema.                             *)
(***************************************************************************)

\* a variant that writes through the node itself (const normalized = schemaNode)
SpreadAlias(h, schemaNode) ==
    IF schemaNode.k = "ref"
    THEN [h |-> h, v |-> schemaNode]
    ELSE [h |-> Append(h, FieldsOf(h, schemaNode)), v |-> Ref(Len(h) + 1)]

\* const normalized = { ...schemaNode }: a new object with the fields of the node
SpreadCopy(h, schemaNode) ==
    [h |-> Append(h, FieldsOf(h, schemaNode)), v |-> Ref(Len(h) + 1)]

\* a variant of the guardrail that forgets the test for declared properties
GuardrailAnyProps(propKeys, additionalProperties) ==
    additionalProperties = Bool(FALSE)

\* the guardrail's condition:
\* propKeys.length === 0 && normalized.additionalProperties === false
GuardrailApplies(propKeys, additionalProperties) ==
    propKeys = {} /\ additionalProperties = Bool(FALSE)

RECURSIVE normalizeSchema(_, _)
RECURSIVE NormalizeProps(_, _, _, _)

\* for (const key of propKeys) normalizedProps[key] = normalizeSchema(props[key]),
\* where m is the address of normalizedProps
NormalizeProps(h, props, keys, m) ==
    IF keys = {} THEN h
    ELSE LET key == CHOOSE x \in keys : TRUE
             r == normalizeSchema(h, props[key])
         IN NormalizeProps([r.h EXCEPT ![m] = Put(@, key, r.v)], props, keys \ {key}, m)

\* if (normalized.type === 'object') { ... }, where n is the address of normalized
NormalizeObject(h, n) ==
    IF Get(h[n], "type") = Str(S_object)
    THEN LET pv == Get(h[n], "properties")
             props == IF Truthy(pv) /\ TypeofObject(pv) THEN FieldsOf(h, pv) ELSE EmptyObject
             propKeys == DOMAIN props
             h2 == IF GuardrailApplies(propKeys, Get(h[n], "additionalProperties"))
                   THEN [h EXCEPT ![n] = Put(@, "additionalProperties", Bool(TRUE))]
                   ELSE h
             m == Len(h2) + 1
             h3 == NormalizeProps(Append(h2, EmptyObject), props, propKeys, m)
         IN [h3 EXCEPT ![n] = Put(@, "properties", Ref(m))]
    ELSE h

\* a variant that leaves the items of an array as they are
NormalizeItemsSkip(h, n) == h

\* if (normalized.type === 'array' && normalized.items) { ... }
NormalizeItems(h, n) ==
    IF Get(h[n], "type") = Str(S_array) /\ Truthy(Get(h[n], "items"))
    THEN LET r == normalizeSchema(h, Get(h[n], "items"))
         IN [r.h EXCEPT ![n] = Put(@, "items", r.v)]
    ELSE h

\* the result is [h |-> the heap afterwards, v |-> the value returned]
normalizeSchema(h, schemaNode) ==
    IF ~Truthy(schemaNode) \/ ~TypeofObject(schemaNode)
    THEN [h |-> h, v |-> schemaNode]
    ELSE LET c == SpreadCopy(h, schemaNode)
             n == c.v.a
         IN [h |-> NormalizeItems(NormalizeObject(c.h, n), n), v |-> c.v]

\* a variant that tests for the KeyStudio type instead
IsOpenAIFormatWrongType(h, tool) ==
    Prop(h, tool, "type") = Str(S_tool) /\ Truthy(Prop(h, tool, "function"))

\* tool.type === 'function' && tool.function
IsOpenAIFormat(h, tool) ==
    Prop(h, tool, "type") = Str(S_function) /\ Truthy(Prop(h, tool, "function"))

\* let parameters = { type: 'object', properties: {}, required: [] }
DefaultParameters(h) ==
    LET n == Len(h) + 1
    IN [h |-> h \o << ("type" :> Str(S_object)) @@ ("properties" :> Ref(n + 1))
                        @@ ("required" :> Arr(<<>>)),
                      EmptyObject >>,
        v |-> Ref(n)]

\* the parameters of a KeyStudio tool (the default object is allocated only
\* when it is used: an unused one is garbage that nothing reads)
ToolParameters(h, tool) ==
    LET config == Prop(h, tool, "config")
        fn == Prop(h, tool, "function")
    IN IF Truthy(config) /\ Truthy(Prop(h, config, "schema"))
       THEN normalizeSchema(h, Prop(h, config, "schema"))
       ELSE IF Truthy(fn) /\ Truthy(Prop(h, fn, "parameters"))
            THEN normalizeSchema(h, Prop(h, fn, "parameters"))
            ELSE DefaultParameters(h)

\* tool.type of a tool that is null or undefined throws
ToolThrows(tool) == Nullish(tool)

\* the callback of inputTools.map, for a tool that is not null
ConvertTool(h, tool) ==
    IF IsOpenAIFormat(h, tool)
    THEN [h |-> h, v |-> tool]
    ELSE LET functionName == OrElse(OrElse(Prop(h, tool, "alias"), Prop(h, tool, "name")),
                                    Str(S_unknown_function))
             description == OrElse(Prop(h, tool, "description"), Str(S_empty))
             p == ToolParameters(h, tool)
             n == Len(p.h) + 1
         IN [h |-> p.h \o << ("type" :> Str(S_function)) @@ ("function" :> Ref(n + 1)),
                             ("name" :> functionName) @@ ("description" :> description)
                                 @@ ("parameters" :> p.v) >>,
             v |-> Ref(n)]

\* the value at v with every reference replaced by the object it points to
RECURSIVE Deref(_, _)
Deref(h, v) ==
    IF v.k = "ref"
    THEN Obj([key \in DOMAIN h[v.a] |-> Deref(h, h[v.a][key])])
    ELSE v

(***************************************************************************)
(* The tool lists convertTools is applied to: parsed JSON, laid out on the *)
(* heap.                                                                   *)
(***************************************************************************)
S_search == <<"s", "e", "a", "r", "c", "h">>
S_web_search == <<"w", "e", "b", "_", "s", "e", "a", "r", "c", "h">>
S_lookup == <<"l", "o", "o", "k", "u", "p">>
S_d == <<"d">>

\* the field key, when m = <<value>>; no field, when m = <<>>
Optional(key, m) == IF m = <<>> THEN EmptyObject ELSE key :> m[1]

\* schema trees nested through properties and items to depth d
RECURSIVE SchemaTrees(_)
SchemaTrees(d) ==
    LET sub == IF d = 0 THEN {} ELSE SchemaTrees(d - 1)
        propsChoices == {<<>>, <<Null>>, <<Obj(EmptyObject)>>} \cup {<<Obj("q" :> c)>> : c \in sub}
        apChoices == {<<>>, <<Bool(FALSE)>>, <<Bool(TRUE)>>}
        itemsChoices == {<<>>} \cup {<<c>> : c \in sub}
    IN {Obj(("type" :> Str(S_object)) @@ Optional("properties", p)
              @@ Optional("additionalProperties", a)) : p \in propsChoices, a \in apChoices}
       \cup {Obj(("type" :> Str(S_array)) @@ Optional("items", it)) : it \in itemsChoices}
       \cup {Obj("type" :> Str(S_string))}

\* tool records around the schemas S: KeyStudio records, OpenAI records, and
\* records with missing or null fields
ToolTrees(S) ==
    {Obj(("name" :> Str(S_search)) @@ ("alias" :> Str(S_web_search)) @@ ("description" :> Str(S_d))
           @@ ("type" :> Str(S_tool)) @@ ("config" :> Obj("schema" :> sch))) : sch \in S}
    \cup {Obj(("type" :> Str(S_function))
           @@ ("function" :> Obj(("name" :> Str(S_lookup)) @@ ("description" :> Str(S_d))
                                   @@ ("parameters" :> sch)))) : sch \in S}
    \cup {Obj(("name" :> Str(S_search)) @@ ("function" :> Obj("parameters" :> sch))) : sch \in S}
    \cup {Obj(EmptyObject),
          Obj(("name" :> Str(S_search)) @@ ("alias" :> Null) @@ ("config" :> Null)),
          Obj(("name" :> Str(S_search)) @@ ("config" :> Obj("schema" :> Str(S_string)))),
          Obj(("type" :> Str(S_function)) @@ ("function" :> Obj(EmptyObject))),
          Obj(("type" :> Str(S_function)) @@ ("function" :> Null) @@ ("name" :> Str(S_empty)))}

\* the lists of length 0..n over the set S
RECURSIVE ListsUpTo(_, _)
ListsUpTo(S, n) ==
    IF n = 0 THEN {<<>>}
    ELSE LET shorter == ListsUpTo(S, n - 1)
         IN shorter \cup {Append(l, x) : l \in {y \in shorter : Len(y) = n - 1}, x \in S}

\* JSON.parse: the tree t laid out on the heap h
RECURSIVE AllocTree(_, _)
RECURSIVE AllocFields(_, _, _, _)
AllocFields(h, f, keys, n) ==
    IF keys = {} THEN h
    ELSE LET key == CHOOSE x \in keys : TRUE
             r == AllocTree(h, f[key])
         IN AllocFields([r.h EXCEPT ![n] = Put(@, key, r.v)], f, keys \ {key}, n)

AllocTree(h, t) ==
    IF t.k = "obj"
    THEN [h |-> AllocFields(Append(h, EmptyObject), t.f, DOMAIN t.f, Len(h) + 1),
          v |-> Ref(Len(h) + 1)]
    ELSE [h |-> h, v |-> t]

\* the list of trees laid out on the heap: [h |-> heap, v |-> list of references]
RECURSIVE AllocList(_, _, _)
AllocList(h, trees, acc) ==
    IF trees = <<>> THEN [h |-> h, v |-> acc]
    ELSE LET r == AllocTree(h, Head(trees))
         IN AllocList(r.h, Tail(trees), Append(acc, r.v))

\* generateCurl is not running
IdlePage ==
    /\ form = EmptyObject
    /\ page = EmptyObject
    /\ requestBody = Undefined
    /\ previousRun = Undefined

IdleMessages ==
    /\ inputMessages = <<>>
    /\ toolNameMap = EmptyObject
    /\ i = 0
    /\ convertedMessages = <<>>
    /\ pendingToolCallIds = <<>>
    /\ clock = 0

\* convertTools(inputTools) is called on the tool list `trees`
CallConvertTools(trees) ==
    LET r == AllocList(<<>>, trees, <<>>)
    IN /\ pc = "convertTools"
       /\ heap = r.h
       /\ inputHeap = r.h
       /\ inputTools = r.v
       /\ convertedTools = <<>>

\* tool lists of any length, shallow schemas
InitTools ==
    /\ \E trees \in ListsUpTo(ToolTrees(SchemaTrees(0)), MaxTools) : CallConvertTools(trees)
    /\ IdleMessages
    /\ IdlePage

\* one tool, schemas nested to MaxDepth
InitSchema ==
    /\ \E t \in ToolTrees(SchemaTrees(MaxDepth)) : CallConvertTools(<<t>>)
    /\ IdleMessages
    /\ IdlePage

\* one call of the callback of inputTools.map
ConvertToolsMap ==
    /\ pc = "convertTools"
    /\ Len(convertedTools) < Len(inputTools)
    /\ ~ToolThrows(inputTools[Len(convertedTools) + 1])
    /\ LET r == ConvertTool(heap, inputTools[Len(convertedTools) + 1])
       IN /\ heap' = r.h
          /\ convertedTools' = Append(convertedTools, r.v)
    /\ UNCHANGED <<pc, inputHeap, inputTools>>
    /\ UNCHANGED msgVars
    /\ UNCHANGED pageVars

\* return inputTools.map(...)
ConvertToolsReturn ==
    /\ pc = "convertTools"
    /\ Len(convertedTools) = Len(inputTools)
    /\ pc' = "done"
    /\ UNCHANGED toolVars
    /\ UNCHANGED msgVars
    /\ UNCHANGED pageVars

NextTools == ConvertToolsMap \/ ConvertToolsReturn

SpecTools == InitTools /\ [][NextTools]_vars

SpecSchema == InitSchema /\ [][NextTools]_vars

TypeTools == pc \in {"convertTools", "done"} /\ Len(convertedTools) <= Len(inputTools)

(***************************************************************************)
(* Properties of convertTools.                                             *)
(***************************************************************************)

\* the schema a KeyStudio record hands to normalizeSchema, undefined if none
SchemaSource(h, tool) ==
    LET config == Prop(h, tool, "config")
        fn == Prop(h, tool, "function")
    IN IF Truthy(config) /\ Truthy(Prop(h, config, "schema")) THEN Prop(h, config, "schema")
       ELSE IF Truthy(fn) /\ Truthy(Prop(h, fn, "parameters")) THEN Prop(h, fn, "parameters")
       ELSE Undefined

\* function.parameters of a converted tool
OutParameters(h, tool) == Prop(h, Prop(h, tool, "function"), "parameters")

\* a record with type "function" and a function payload
TargetShaped(h, tool) ==
    Prop(h, tool, "type") = Str(S_function) /\ Prop(h, tool, "function").k = "ref"

\* the positions converted so far whose input record is a KeyStudio record with a schema
NormalizedPositions ==
    {k \in 1..Len(convertedTools) :
        /\ ~TargetShaped(inputHeap, inputTools[k])
        /\ SchemaSource(inputHeap, inputTools[k]).k = "ref"}

\* the declared properties of the fields f of a schema node
Declared(h, f) ==
    LET pv == Get(f, "properties") IN IF pv.k = "ref" THEN DOMAIN h[pv.a] ELSE {}

IsObjectNode(f) == Get(f, "type") = Str(S_object)
IsArrayNode(f) == Get(f, "type") = Str(S_array)

\* the guardrail, at the node vin of the input and its normalized node vout, and below
RECURSIVE GuardrailHolds(_, _, _, _)
GuardrailHolds(hin, vin, hout, vout) ==
    vin.k = "ref" =>
        /\ vout.k = "ref"
        /\ LET fin == hin[vin.a]
               fout == hout[vout.a]
               keys == Declared(hin, fin)
           IN /\ IsObjectNode(fin) =>
                    /\ (keys = {} /\ Get(fin, "additionalProperties") = Bool(FALSE))
                           => Get(fout, "additionalProperties") = Bool(TRUE)
                    /\ keys # {} =>
                           /\ Get(fout, "additionalProperties") = Get(fin, "additionalProperties")
                           /\ ("additionalProperties" \in DOMAIN fout)
                                  = ("additionalProperties" \in DOMAIN fin)
                    /\ \A key \in keys :
                           GuardrailHolds(hin, hin[Get(fin, "properties").a][key],
                                          hout, Prop(hout, Get(fout, "properties"), key))
              /\ (IsArrayNode(fin) /\ Truthy(Get(fin, "items")))
                     => GuardrailHolds(hin, Get(fin, "items"), hout, Get(fout, "items"))

\* C6 (guardrail): for every object-typed schema node that normalizeSchema
\* processes, an input without declared properties and with
\* additionalProperties false has additionalProperties true in the normalized
\* node, and an input with at least one declared property keeps its
\* additionalProperties (false, true or absent).
C6_Guardrail ==
    \A k \in NormalizedPositions :
        GuardrailHolds(inputHeap, SchemaSource(inputHeap, inputTools[k]),
                       heap, OutParameters(heap, convertedTools[k]))

\* a node with a declared property kept additionalProperties false, and the
\* empty node under it was relaxed
C6_Witness ==
    /\ 1 \in NormalizedPositions
    /\ LET fin == inputHeap[SchemaSource(inputHeap, inputTools[1]).a]
           out == OutParameters(heap, convertedTools[1])
       IN /\ IsObjectNode(fin)
          /\ Declared(inputHeap, fin) = {"q"}
          /\ Get(fin, "additionalProperties") = Bool(FALSE)
          /\ Prop(heap, out, "additionalProperties") = Bool(FALSE)
          /\ LET cin == inputHeap[Get(fin, "properties").a]["q"]
                 cout == Prop(heap, Prop(heap, out, "properties"), "q")
             IN /\ IsObjectNode(inputHeap[cin.a])
                /\ Declared(inputHeap, inputHeap[cin.a]) = {}
                /\ Get(inputHeap[cin.a], "additionalProperties") = Bool(FALSE)
                /\ Prop(heap, cout, "additionalProperties") = Bool(TRUE)

\* every object-typed node of the chain below v has a properties object and
\* does not forbid everything
RECURSIVE ChainNormalized(_, _)
ChainNormalized(h, v) ==
    v.k = "ref" =>
        LET f == h[v.a]
            pv == Get(f, "properties")
        IN /\ IsObjectNode(f) =>
                 /\ pv.k = "ref"
                 /\ ~(DOMAIN h[pv.a] = {} /\ Get(f, "additionalProperties") = Bool(FALSE))
                 /\ \A key \in DOMAIN h[pv.a] : ChainNormalized(h, h[pv.a][key])
           /\ IsArrayNode(f) => ChainNormalized(h, Get(f, "items"))

\* the number of nodes on the longest chain below v
RECURSIVE ChainDepth(_, _)
ChainDepth(h, v) ==
    IF v.k # "ref" THEN 0
    ELSE LET f == h[v.a]
             below == {ChainDepth(h, Get(f, "items"))}
                      \cup {ChainDepth(h, h[Get(f, "properties").a][key]) :
                                key \in Declared(h, f)}
         IN 1 + CHOOSE d \in below : \A e \in below : e <= d

\* C7 (recursive coverage): in the parameters of a converted KeyStudio tool,
\* every object-typed node of the chain through properties and items, at any
\* depth, has a properties object and is not left with no properties and
\* additionalProperties false.
C7_RecursiveCoverage ==
    \A k \in NormalizedPositions : ChainNormalized(heap, OutParameters(heap, convertedTools[k]))

\* an array whose items are an object whose property is an empty object that
\* forbade additional properties: the node at depth 3 was relaxed
C7_Witness ==
    /\ 1 \in NormalizedPositions
    /\ LET src == SchemaSource(inputHeap, inputTools[1])
           out == OutParameters(heap, convertedTools[1])
           item == Prop(heap, out, "items")
           leafIn == Prop(inputHeap, Prop(inputHeap, Prop(inputHeap, src, "items"), "properties"), "q")
           leafOut == Prop(heap, Prop(heap, item, "properties"), "q")
       IN /\ ChainDepth(inputHeap, src) = MaxDepth + 1
          /\ IsArrayNode(inputHeap[src.a])
          /\ leafIn.k = "ref"
          /\ IsObjectNode(inputHeap[leafIn.a])
          /\ "properties" \notin DOMAIN inputHeap[leafIn.a]
          /\ Get(inputHeap[leafIn.a], "additionalProperties") = Bool(FALSE)
          /\ Prop(heap, leafOut, "additionalProperties") = Bool(TRUE)
          /\ Prop(heap, leafOut, "properties").k = "ref"

\* C8: every converted tool has a function.parameters that is an object and
\* a function.name that is a non-empty string, for every tool list.
C8_ParametersAndName ==
    \A k \in 1..Len(convertedTools) :
        LET fn == Prop(heap, convertedTools[k], "function")
        IN /\ fn.k = "ref"
           /\ Prop(heap, fn, "parameters").k = "ref"
           /\ Prop(heap, fn, "name").k = "str"
           /\ Prop(heap, fn, "name").s # <<>>

\* the name a KeyStudio record is converted under
CanonicalName(h, tool) ==
    IF Truthy(Prop(h, tool, "alias")) THEN Prop(h, tool, "alias")
    ELSE IF Truthy(Prop(h, tool, "name")) THEN Prop(h, tool, "name")
    ELSE Str(S_unknown_function)

\* a record that is not of type "function" or has no function payload
KeyStudioShaped(h, tool) ==
    Prop(h, tool, "type") # Str(S_function) \/ Prop(h, tool, "function").k \in {"undef", "null"}

\* C9 (pass-through): a record with type "function" and a function payload is
\* returned as the same object, unchanged, at its position; every other
\* position holds a new object named after the input record of that
\* position; the output has the length of the input.
C9_PassThrough ==
    /\ \A k \in 1..Len(convertedTools) :
           IF TargetShaped(inputHeap, inputTools[k])
           THEN /\ convertedTools[k] = inputTools[k]
                /\ Deref(heap, convertedTools[k]) = Deref(inputHeap, inputTools[k])
           ELSE KeyStudioShaped(inputHeap, inputTools[k]) =>
                    /\ convertedTools[k].a > Len(inputHeap)
                    /\ Prop(heap, Prop(heap, convertedTools[k], "function"), "name")
                           = CanonicalName(inputHeap, inputTools[k])
    /\ pc = "done" => Len(convertedTools) = Len(inputTools)

\* a KeyStudio record followed by an OpenAI record whose parameters are an
\* empty object that forbids additional properties, and still does
C9_Witness ==
    /\ pc = "done"
    /\ Len(inputTools) = 2
    /\ ~TargetShaped(inputHeap, inputTools[1])
    /\ TargetShaped(inputHeap, inputTools[2])
    /\ convertedTools[2] = inputTools[2]
    /\ LET params == OutParameters(heap, convertedTools[2])
       IN /\ params.k = "ref"
          /\ IsObjectNode(heap[params.a])
          /\ Declared(heap, heap[params.a]) = {}
          /\ Get(heap[params.a], "additionalProperties") = Bool(FALSE)

\* C10: convertTools does not mutate its input: every object of the input
\* tool list (tool records, config and function objects, schema nodes,
\* properties maps) is what it was before the call, and so is the list.
C10_InputNotMutated ==
    /\ Len(heap) >= Len(inputHeap)
    /\ \A a \in 1..Len(inputHeap) : heap[a] = inputHeap[a]
    /\ \A k \in 1..Len(inputTools) :
           Deref(heap, inputTools[k]) = Deref(inputHeap, inputTools[k])

\* the call has returned, and the guardrail relaxed the root of a schema and
\* a node below the root of a schema
C10_Witness ==
    /\ pc = "done"
    /\ 1 \in NormalizedPositions
    /\ LET src == SchemaSource(inputHeap, inputTools[1])
           out == OutParameters(heap, convertedTools[1])
       IN /\ Get(inputHeap[src.a], "additionalProperties") = Bool(FALSE)
          /\ ChainDepth(inputHeap, src) > 1
          /\ Deref(heap, out) # Deref(inputHeap, src)

(***************************************************************************)
(* Strings.                                                                *)
(***************************************************************************)
S_system == <<"s", "y", "s", "t", "e", "m">>
S_user == <<"u", "s", "e", "r">>
S_assistant == <<"a", "s", "s", "i", "s", "t", "a", "n", "t">>
S_developer == <<"d", "e", "v", "e", "l", "o", "p", "e", "r">>
S_script == <<"s", "c", "r", "i", "p", "t">>
S_llm == <<"l", "l", "m">>
S_agent == <<"a", "g", "e", "n", "t">>
S_text == <<"t", "e", "x", "t">>
S_true == <<"t", "r", "u", "e">>
S_false == <<"f", "a", "l", "s", "e">>
S_null == <<"n", "u", "l", "l">>
S_undefined == <<"u", "n", "d", "e", "f", "i", "n", "e", "d">>
S_object_Object == <<"[", "o", "b", "j", "e", "c", "t", " ", "O", "b", "j", "e", "c", "t", "]">>
S_call_ == <<"c", "a", "l", "l", "_">>
S_Executed == <<"E", "x", "e", "c", "u", "t", "e", "d", " ", "*", "*">>

DigitChars == <<"0", "1", "2", "3", "4", "5", "6", "7", "8", "9">>

\* the decimal digits of the natural number n
RECURSIVE Digits(_)
Digits(n) == IF n < 10 THEN <<DigitChars[n + 1]>> ELSE Digits(n \div 10) \o <<DigitChars[(n % 10) + 1]>>

\* the elements of the list of strings, separated by sep
RECURSIVE Join(_, _)
Join(list, sep) ==
    IF list = <<>> THEN <<>>
    ELSE IF Len(list) = 1 THEN list[1]
    ELSE list[1] \o sep \o Join(Tail(list), sep)

\* the characters as one TLA+ string: the key a string selects in an object
RECURSIVE Concat(_)
Concat(chars) == IF chars = <<>> THEN "" ELSE Head(chars) \o Concat(Tail(chars))

\* String(v), for the values of the model (numbers are naturals)
RECURSIVE JSString(_)
JSString(v) ==
    CASE v.k = "str" -> v.s
      [] v.k = "num" -> Digits(v.n)
      [] v.k = "bool" -> IF v.b THEN S_true ELSE S_false
      [] v.k = "null" -> S_null
      [] v.k = "undef" -> S_undefined
      [] v.k = "arr" -> Join([n \in 1..Len(v.a) |->
                                  IF v.a[n].k \in {"null", "undef"} THEN <<>> ELSE JSString(v.a[n])],
                             <<",">>)
      [] OTHER -> S_object_Object

\* the keys of an object in a fixed order
RECURSIVE KeyList(_)
KeyList(keys) ==
    IF keys = {} THEN <<>>
    ELSE LET key == CHOOSE x \in keys : TRUE IN <<key>> \o KeyList(keys \ {key})

\* a string with its quotes, backslashes and newlines escaped
RECURSIVE Escape(_)
Escape(chars) ==
    IF chars = <<>> THEN <<>>
    ELSE LET c == Head(chars)
         IN (CASE c = "\"" -> <<"\\", "\"">>
               [] c = "\\" -> <<"\\", "\\">>
               [] c = "\n" -> <<"\\", "n">>
               [] c = "\t" -> <<"\\", "t">>
               [] OTHER -> <<c>>) \o Escape(Tail(chars))

\* JSON.stringify(v) for a parsed JSON value (the keys of the objects that
\* are stringified are one character long in the model)
RECURSIVE JSONStringify(_)
JSONStringify(v) ==
    CASE v.k = "str" -> <<"\"">> \o Escape(v.s) \o <<"\"">>
      [] v.k = "arr" -> <<"[">> \o Join([n \in 1..Len(v.a) |-> JSONStringify(v.a[n])], <<",">>) \o <<"]">>
      [] v.k = "obj" -> LET keys == KeyList(DOMAIN v.f)
                        IN <<"{">>
                           \o Join([n \in 1..Len(keys) |->
                                       <<"\"", keys[n], "\"", ":">> \o JSONStringify(v.f[keys[n]])],
                                   <<",">>)
                           \o <<"}">>
      [] OTHER -> JSString(v)

WhiteSpace == {" ", "\n", "\t", "\r"}

RECURSIVE TrimStart(_)
TrimStart(chars) ==
    IF chars # <<>> /\ Head(chars) \in WhiteSpace THEN TrimStart(Tail(chars)) ELSE chars

RECURSIVE TrimEnd(_)
TrimEnd(chars) ==
    IF chars # <<>> /\ chars[Len(chars)] \in WhiteSpace
    THEN TrimEnd(SubSeq(chars, 1, Len(chars) - 1))
    ELSE chars

\* chars.trim()
Trim(chars) == TrimEnd(TrimStart(chars))

UpperLetters == <<"A", "B", "C", "D", "E", "F", "G", "H", "I", "J", "K", "L", "M",
                  "N", "O", "P", "Q", "R", "S", "T", "U", "V", "W", "X", "Y", "Z">>
LowerLetters == <<"a", "b", "c", "d", "e", "f", "g", "h", "i", "j", "k", "l", "m",
                  "n", "o", "p", "q", "r", "s", "t", "u", "v", "w", "x", "y", "z">>

\* the letter c without its case (the i flag of the pattern)
ToLower(c) ==
    IF \E n \in 1..26 : UpperLetters[n] = c
    THEN LowerLetters[CHOOSE n \in 1..26 : UpperLetters[n] = c]
    ELSE c

\* the longest run of characters other than * that starts at position p
RECURSIVE RunLength(_, _)
RunLength(chars, p) ==
    IF p <= Len(chars) /\ chars[p] # "*" THEN 1 + RunLength(chars, p + 1) ELSE 0

\* /Executed \*\*([^*]+)\*\*/i matches at position p
MatchesAt(chars, p) ==
    LET q == p + Len(S_Executed)
        r == q + RunLength(chars, q)
    IN /\ q - 1 <= Len(chars)
       /\ \A n \in 1..Len(S_Executed) : ToLower(chars[p + n - 1]) = ToLower(S_Executed[n])
       /\ r > q
       /\ r + 1 <= Len(chars)
       /\ chars[r] = "*"
       /\ chars[r + 1] = "*"

\* nextContent.match(/Executed \*\*([^*]+)\*\*/i): <<the captured group>>, or
\* <<>> when the pattern does not match
ExecutedMatch(chars) ==
    LET positions == {p \in 1..Len(chars) : MatchesAt(chars, p)}
    IN IF positions = {} THEN <<>>
       ELSE LET p == CHOOSE x \in positions : \A y \in positions : x <= y
                q == p + Len(S_Executed)
            IN <<SubSeq(chars, q, q + RunLength(chars, q) - 1)>>

\* tree values: v.key, where v is neither null nor undefined
Field(v, key) == Prop(<<>>, v, key)

(***************************************************************************)
(* convertMessageContent                                                   *)
(***************************************************************************)
\* content.filter(item => item.type === 'text' && item.text).map(item => item.text)
RECURSIVE TextItems(_)
TextItems(items) ==
    IF items = <<>> THEN <<>>
    ELSE LET item == Head(items)
         IN (IF Field(item, "type") = Str(S_text) /\ Truthy(Field(item, "text"))
             THEN <<JSString(Field(item, "text"))>>
             ELSE <<>>) \o TextItems(Tail(items))

\* item.type of an item that is null or undefined throws
ContentThrows(content) ==
    content.k = "arr" /\ \E n \in 1..Len(content.a) : Nullish(content.a[n])

\* the result for a content that does not throw
convertMessageContent(content) ==
    IF content.k = "str" THEN content
    ELSE IF content.k = "arr" THEN Str(Join(TextItems(content.a), <<"\n">>))
    ELSE IF content.k # "null" /\ TypeofObject(content) THEN Str(JSONStringify(content))
    ELSE Str(JSString(OrElse(content, Str(S_empty))))

(***************************************************************************)
(* buildToolNameMap                                                        *)
(***************************************************************************)
S_proto == <<"_", "_", "p", "r", "o", "t", "o", "_", "_">>

\* a variant that keeps the entry a key already has
MapStoreOnce(map, key, value) ==
    LET k == Concat(JSString(key))
    IN IF k = "__proto__" \/ k \in DOMAIN map THEN map ELSE Put(map, k, value)

\* map[key] = value on an object literal, for a value that is a string:
\* the assignment to __proto__ stores no property
MapStore(map, key, value) ==
    LET k == Concat(JSString(key))
    IN IF k = "__proto__" THEN map ELSE Put(map, k, value)

\* tool.type === 'function' && tool.function && tool.function.name
HasFunctionName(h, tool) ==
    /\ Prop(h, tool, "type") = Str(S_function)
    /\ Truthy(Prop(h, tool, "function"))
    /\ Truthy(Prop(h, Prop(h, tool, "function"), "name"))

\* the body of the loop, for a tool that is not null
MapTool(h, map, tool) ==
    IF HasFunctionName(h, tool)
    THEN LET name == Prop(h, Prop(h, tool, "function"), "name")
         IN MapStore(map, name, name)
    ELSE LET name == Prop(h, tool, "name")
             alias == Prop(h, tool, "alias")
             finalName == OrElse(OrElse(alias, name), Str(S_unknown_function))
             named == IF Truthy(name) THEN MapStore(map, name, finalName) ELSE map
         IN IF Truthy(alias) THEN MapStore(named, alias, finalName) ELSE named

\* the loop over the tools, from the map built so far
RECURSIVE MapTools(_, _, _)
MapTools(h, map, tools) ==
    IF tools = <<>> THEN map
    ELSE MapTools(h, MapTool(h, map, Head(tools)), Tail(tools))

\* the map returned for a list without null tools
buildToolNameMap(h, tools) == MapTools(h, EmptyObject, tools)

(***************************************************************************)
(* convertMessages                                                         *)
(***************************************************************************)
\* a variant without the role tool
allowedRolesWithoutTool ==
    {Str(S_system), Str(S_user), Str(S_assistant), Str(S_function), Str(S_developer)}

\* const allowedRoles = new Set([...])
allowedRoles ==
    {Str(S_system), Str(S_user), Str(S_assistant), Str(S_tool), Str(S_function), Str(S_developer)}

\* the properties every object inherits from Object.prototype
ObjectPrototypeKeys ==
    {"constructor", "toString", "valueOf", "hasOwnProperty", "isPrototypeOf",
     "propertyIsEnumerable", "toLocaleString", "__proto__"}

\* toolNameMap[rawName]
MapLookup(map, rawName) ==
    LET key == Concat(JSString(rawName))
    IN IF key \in DOMAIN map THEN map[key]
       ELSE IF key \in ObjectPrototypeKeys THEN [k |-> "builtin", name |-> key]
       ELSE Undefined

\* `call_${Date.now()}_${i}_${idx}`
SynthesizedId(now, outer, idx) ==
    Str(S_call_ \o Digits(now) \o <<"_">> \o Digits(outer) \o <<"_">> \o Digits(idx))

\* const callId = call.id || `call_${Date.now()}_${i}_${idx}`
CallId(call, now, outer, idx) == OrElse(Field(call, "id"), SynthesizedId(now, outer, idx))

\* the name and the arguments read from the call: [name |-> rawName, args |-> rawArgs]
RawCall(call) ==
    LET fn == Field(call, "function")
        ks == IF Truthy(Field(call, "name"))
              THEN [name |-> Field(call, "name"), args |-> OrElse(Field(call, "args"), Obj(EmptyObject))]
              ELSE [name |-> Str(S_empty), args |-> Obj(EmptyObject)]
    IN IF Truthy(fn) /\ Truthy(Field(fn, "name"))
       THEN [name |-> Field(fn, "name"),
             args |-> IF Field(fn, "arguments").k = "str" THEN Field(fn, "arguments")
                      ELSE OrElse(Field(fn, "arguments"), Obj(EmptyObject))]
       ELSE ks

\* the heuristic: the name after "Executed **...**" in the next message
RecoveredName(map, rawName, messages, outer) ==
    IF ~Truthy(MapLookup(map, rawName)) /\ outer + 2 <= Len(messages) /\ Truthy(messages[outer + 2])
    THEN LET nextContent == convertMessageContent(Field(messages[outer + 2], "content"))
             executedMatch == ExecutedMatch(nextContent.s)
         IN IF executedMatch # <<>> THEN Str(Trim(executedMatch[1])) ELSE rawName
    ELSE rawName

\* the callback of msg.tool_calls.map: the normalized call with index idx of
\* message number outer, when Date.now() returns now
NormalizeToolCall(call, idx, outer, now, messages, map) ==
    LET raw == RawCall(call)
        rawName == RecoveredName(map, raw.name, messages, outer)
        finalName == OrElse(MapLookup(map, rawName), rawName)
        argumentsString == IF raw.args.k = "str" THEN raw.args
                           ELSE Str(JSONStringify(OrElse(raw.args, Obj(EmptyObject))))
    IN Obj(("id" :> CallId(call, now, outer, idx)) @@ ("type" :> Str(S_function))
           @@ ("function" :> Obj(("name" :> finalName) @@ ("arguments" :> argumentsString))))

\* msg.role === 'assistant' && Array.isArray(msg.tool_calls) && msg.tool_calls.length > 0
HasToolCalls(msg) ==
    /\ Field(msg, "role") = Str(S_assistant)
    /\ Field(msg, "tool_calls").k = "arr"
    /\ Len(Field(msg, "tool_calls").a) > 0

\* a variant without the optional chaining: msg.additional_kwargs.node_metadata.nodeType
NodeTypeUnchained(msg) ==
    LET kwargs == Field(msg, "additional_kwargs")
    IN IF kwargs.k \in {"null", "undef"} THEN TypeError
       ELSE LET meta == Field(kwargs, "node_metadata")
            IN IF meta.k \in {"null", "undef"} THEN TypeError ELSE Field(meta, "nodeType")

\* msg.additional_kwargs?.node_metadata?.nodeType
NodeType(msg) ==
    LET kwargs == Field(msg, "additional_kwargs")
    IN IF kwargs.k \in {"null", "undef"} THEN Undefined
       ELSE LET meta == Field(kwargs, "node_metadata")
            IN IF meta.k \in {"null", "undef"} THEN Undefined ELSE Field(meta, "nodeType")

\* a variant that takes only the hint tool for the hint of a tool response
IsToolResponseToolOnly(msg, pending) ==
    /\ ~HasToolCalls(msg)
    /\ Field(msg, "role") \notin allowedRoles
    /\ IF Truthy(NodeType(msg))
       THEN NodeType(msg) = Str(S_tool) /\ Len(pending) > 0
       ELSE Len(pending) > 0

\* the message pops the head of the pending queue and becomes its response
IsToolResponse(msg, pending) ==
    /\ ~HasToolCalls(msg)
    /\ Field(msg, "role") \notin allowedRoles
    /\ IF Truthy(NodeType(msg))
       THEN NodeType(msg) \in {Str(S_tool), Str(S_script)} /\ Len(pending) > 0
       ELSE Len(pending) > 0

\* a variant that keeps the role of the message
FinalRoleKept(msg) == Field(msg, "role")

\* the role of a message that is neither an assistant with tool calls nor a
\* tool response
FinalRole(msg) ==
    IF Field(msg, "role") \in allowedRoles THEN Field(msg, "role") ELSE Str(S_assistant)

\* the values the calls of Date.now() can return for the list of calls: the
\* clock never runs backwards, and a call with an id does not read it
Timestamps(calls, now) ==
    {ts \in [1..Len(calls) -> now..MaxNow] :
        \A n \in 1..Len(calls) :
            LET before == IF n = 1 THEN now ELSE ts[n - 1]
            IN IF Truthy(Field(calls[n], "id")) THEN ts[n] = before ELSE ts[n] >= before}

\* the callback of msg.tool_calls.map throws: call.id of a call that is null,
\* or the content of the next message when the heuristic reads it
CallThrows(call, outer, messages, map) ==
    \/ Nullish(call)
    \/ /\ ~Truthy(MapLookup(map, RawCall(call).name))
       /\ outer + 2 <= Len(messages)
       /\ Truthy(messages[outer + 2])
       /\ ContentThrows(Field(messages[outer + 2], "content"))

\* the iteration for message number outer throws a TypeError
MessageThrows(outer, messages, map) ==
    LET msg == messages[outer + 1]
    IN \/ Nullish(msg)
       \/ ContentThrows(Field(msg, "content"))
       \/ /\ HasToolCalls(msg)
          /\ \E n \in 1..Len(Field(msg, "tool_calls").a) :
                 CallThrows(Field(msg, "tool_calls").a[n], outer, messages, map)
       \/ /\ ~HasToolCalls(msg)
          /\ NodeType(msg) = TypeError

\* a variant that takes the newest id: pendingToolCallIds.pop()
ShiftLast(pending) ==
    [head |-> pending[Len(pending)], rest |-> SubSeq(pending, 1, Len(pending) - 1)]

\* a variant that reads the head and leaves it in the queue: pendingToolCallIds[0]
ShiftKeep(pending) == [head |-> Head(pending), rest |-> pending]

\* a variant of the test for empty content without the trim
IsEmptyContentNoTrim(content) == ~Truthy(content)

\* !content || content.trim() === ''
IsEmptyContent(content) == ~Truthy(content) \/ Trim(content.s) = <<>>

\* the head of the queue leaves it: pendingToolCallIds.shift()
Shift(pending) == [head |-> Head(pending), rest |-> Tail(pending)]

\* an iteration for an assistant message with tool calls
AssistantToolCalls ==
    /\ pc = "convertMessages"
    /\ i < Len(inputMessages)
    /\ ~MessageThrows(i, inputMessages, toolNameMap)
    /\ LET msg == inputMessages[i + 1]
           content == convertMessageContent(Field(msg, "content"))
       IN /\ HasToolCalls(msg)
          /\ \E ts \in Timestamps(Field(msg, "tool_calls").a, clock) :
                LET calls == Field(msg, "tool_calls").a
                    normalizedToolCalls ==
                        [n \in 1..Len(calls) |->
                            NormalizeToolCall(calls[n], n - 1, i, ts[n], inputMessages, toolNameMap)]
                IN /\ pendingToolCallIds' = pendingToolCallIds
                          \o [n \in 1..Len(calls) |-> Field(normalizedToolCalls[n], "id")]
                   /\ convertedMessages' = Append(convertedMessages,
                          Obj(("role" :> Str(S_assistant)) @@ ("content" :> OrElse(content, Str(S_empty)))
                              @@ ("tool_calls" :> Arr(normalizedToolCalls))))
                   /\ clock' = ts[Len(calls)]
    /\ i' = i + 1
    /\ UNCHANGED <<pc, inputMessages, toolNameMap>>
    /\ UNCHANGED toolVars
    /\ UNCHANGED pageVars

\* an iteration for a message that answers the oldest pending tool call
ToolResponse ==
    /\ pc = "convertMessages"
    /\ i < Len(inputMessages)
    /\ ~MessageThrows(i, inputMessages, toolNameMap)
    /\ LET msg == inputMessages[i + 1]
           content == convertMessageContent(Field(msg, "content"))
           shifted == Shift(pendingToolCallIds)
       IN /\ IsToolResponse(msg, pendingToolCallIds)
          /\ pendingToolCallIds' = shifted.rest
          /\ convertedMessages' = Append(convertedMessages,
                 Obj(("role" :> Str(S_tool)) @@ ("tool_call_id" :> shifted.head)
                     @@ ("content" :> OrElse(content, Str(S_empty)))))
    /\ i' = i + 1
    /\ UNCHANGED <<pc, inputMessages, toolNameMap, clock>>
    /\ UNCHANGED toolVars
    /\ UNCHANGED pageVars

\* an iteration for any other message: skipped when empty, else emitted
PlainMessage ==
    /\ pc = "convertMessages"
    /\ i < Len(inputMessages)
    /\ ~MessageThrows(i, inputMessages, toolNameMap)
    /\ LET msg == inputMessages[i + 1]
           content == convertMessageContent(Field(msg, "content"))
       IN /\ ~HasToolCalls(msg)
          /\ ~IsToolResponse(msg, pendingToolCallIds)
          /\ convertedMessages' =
                 IF IsEmptyContent(content)
                 THEN convertedMessages
                 ELSE Append(convertedMessages,
                             Obj(("role" :> FinalRole(msg)) @@ ("content" :> content)))
    /\ i' = i + 1
    /\ UNCHANGED <<pc, inputMessages, toolNameMap, pendingToolCallIds, clock>>
    /\ UNCHANGED toolVars
    /\ UNCHANGED pageVars

\* a variant that returns before the last message is visited
ConvertMessagesReturnEarly ==
    /\ pc = "convertMessages"
    /\ i <= Len(inputMessages)
    /\ pc' = "done"
    /\ UNCHANGED msgVars
    /\ UNCHANGED toolVars
    /\ UNCHANGED pageVars

\* return convertedMessages
ConvertMessagesReturn ==
    /\ pc = "convertMessages"
    /\ i = Len(inputMessages)
    /\ pc' = "done"
    /\ UNCHANGED msgVars
    /\ UNCHANGED toolVars
    /\ UNCHANGED pageVars

NextMessages == AssistantToolCalls \/ ToolResponse \/ PlainMessage \/ ConvertMessagesReturn

(***************************************************************************)
(* The transcripts convertMessages is applied to.                          *)
(***************************************************************************)
S_tool_node == <<"t", "o", "o", "l", "_", "n", "o", "d", "e">>
S_hi == <<"h", "i">>
S_blank == <<" ">>
S_a == <<"a">>
S_x == <<"x">>

\* a KeyStudio call with its own id, and one without an id
CallTrees ==
    {Obj(("id" :> Str(S_a)) @@ ("name" :> Str(S_search)) @@ ("args" :> Obj("q" :> Str(S_x)))),
     Obj(("name" :> Str(S_search)) @@ ("args" :> Obj("q" :> Str(S_x))))}

\* additional_kwargs: { node_metadata: { nodeType } }
Hint(nodeType) == "additional_kwargs" :> Obj("node_metadata" :> Obj("nodeType" :> Str(nodeType)))

\* assistant messages with 1..MaxCalls tool calls, plain messages of allowed
\* roles, and messages of a role that is not allowed, with and without a hint
TranscriptMessages ==
    {Obj(("role" :> Str(S_assistant)) @@ ("tool_calls" :> Arr(calls))) :
         calls \in ListsUpTo(CallTrees, MaxCalls) \ {<<>>}}
    \cup {Obj(("role" :> Str(S_assistant)) @@ ("content" :> Str(S_hi))
              @@ ("tool_calls" :> Arr(calls))) :
              calls \in {<<>>, <<Obj(("id" :> Str(S_a)) @@ ("name" :> Str(S_search)))>>}}
    \cup {Obj(("role" :> Str(role)) @@ ("content" :> Str(content))) :
              role \in {S_user, S_tool}, content \in {S_hi, S_blank}}
    \cup {Obj(("role" :> Str(S_user)) @@ ("content" :> Str(S_hi)) @@ Hint(S_tool))}
    \cup {Obj(("role" :> Str(S_tool_node)) @@ ("content" :> Str(content))) :
              content \in {S_hi, S_blank}}
    \cup {Obj(("role" :> Str(S_tool_node)) @@ ("content" :> Str(content)) @@ Hint(nodeType)) :
              content \in {S_hi, S_blank}, nodeType \in {S_tool, S_llm}}

\* the NameMap of the tool list [{name: "search", alias: "web_search", ...}]
SearchNameMap ==
    ("search" :> Str(S_web_search)) @@ ("web_search" :> Str(S_web_search))

IdleTools ==
    /\ heap = <<>>
    /\ inputHeap = <<>>
    /\ inputTools = <<>>
    /\ convertedTools = <<>>

\* convertMessages(inputMessages, toolNameMap) is called
InitMessages ==
    /\ pc = "convertMessages"
    /\ inputMessages \in ListsUpTo(TranscriptMessages, MaxMsgs)
    /\ toolNameMap = SearchNameMap
    /\ i = 0
    /\ convertedMessages = <<>>
    /\ pendingToolCallIds = <<>>
    /\ clock = 0
    /\ IdleTools
    /\ IdlePage

SpecMessages == InitMessages /\ [][NextMessages]_vars

TypeMessages ==
    /\ pc \in {"convertMessages", "done"}
    /\ i \in 0..Len(inputMessages)
    /\ Len(convertedMessages) <= i
    /\ clock \in 0..MaxNow

(***************************************************************************)
(* Properties of convertMessages.                                          *)
(***************************************************************************)

\* the ids of the tool_calls entries of the messages, in emission order
RECURSIVE EmittedCallIds(_)
EmittedCallIds(messages) ==
    IF messages = <<>> THEN <<>>
    ELSE LET m == Head(messages)
             calls == Field(m, "tool_calls")
         IN (IF calls.k = "arr" THEN [n \in 1..Len(calls.a) |-> Field(calls.a[n], "id")] ELSE <<>>)
            \o EmittedCallIds(Tail(messages))

\* the tool_call_id values the messages carry, in emission order
RECURSIVE ResponseIds(_)
ResponseIds(messages) ==
    IF messages = <<>> THEN <<>>
    ELSE LET m == Head(messages)
         IN (IF "tool_call_id" \in DOMAIN m.f THEN <<m.f["tool_call_id"]>> ELSE <<>>)
            \o ResponseIds(Tail(messages))

IsPrefix(s, t) == Len(s) <= Len(t) /\ SubSeq(t, 1, Len(s)) = s

\* the first n messages of the output
OutputPrefix(n) == SubSeq(convertedMessages, 1, n)

\* C1: at every prefix of the output, the tool_call_id values of the
\* tool-response messages emitted so far are a prefix of the call ids emitted
\* so far in assistant tool_calls entries: every response id was emitted
\* before it, in FIFO order, and there are never more responses than calls.
C1_FifoPairing ==
    \A n \in 0..Len(convertedMessages) :
        IsPrefix(ResponseIds(OutputPrefix(n)), EmittedCallIds(OutputPrefix(n)))

\* two calls with different ids were answered, in the order of the calls
C1_Witness ==
    /\ Len(ResponseIds(convertedMessages)) = 2
    /\ ResponseIds(convertedMessages)[1] # ResponseIds(convertedMessages)[2]
    /\ ResponseIds(convertedMessages) = EmittedCallIds(convertedMessages)

\* the number of times x occurs in the sequence
Count(seq, x) == Cardinality({n \in 1..Len(seq) : seq[n] = x})

\* C2 as stated: no two tool-response messages of the output carry the same
\* tool_call_id.
C2_NoRepeatedResponseId ==
    LET ids == ResponseIds(convertedMessages)
    IN \A m, n \in 1..Len(ids) : ids[m] = ids[n] => m = n

\* C2 as amended: at every prefix of the output, an id is carried by at most
\* as many tool-response messages as there are tool_calls entries emitted
\* with that id; when the emitted call ids are pairwise different, no two
\* tool-response messages carry the same id.
C2_ConsumedAtMostOnce ==
    \A n \in 0..Len(convertedMessages) :
        LET responses == ResponseIds(OutputPrefix(n))
            emitted == EmittedCallIds(OutputPrefix(n))
        IN /\ \A m \in 1..Len(responses) :
                  Count(responses, responses[m]) <= Count(emitted, responses[m])
           /\ (\A a, b \in 1..Len(emitted) : emitted[a] = emitted[b] => a = b)
                  => (\A a, b \in 1..Len(responses) : responses[a] = responses[b] => a = b)

\* one id was emitted once and answered once, and a message of a role that
\* is not allowed came after it and was not given the id again
C2_Witness ==
    /\ pc = "done"
    /\ Len(inputMessages) = 3
    /\ Len(EmittedCallIds(convertedMessages)) = 1
    /\ Len(ResponseIds(convertedMessages)) = 1
    /\ Field(inputMessages[3], "role") = Str(S_tool_node)
    /\ Len(convertedMessages) = 3

\* C3: when convertMessages returns, every tool_calls entry of an emitted
\* assistant message is followed by a message with role "tool" whose
\* tool_call_id is the id of the entry.
C3_EveryCallAnswered ==
    pc = "done" =>
        \A m \in 1..Len(convertedMessages) :
            LET calls == Field(convertedMessages[m], "tool_calls")
            IN calls.k = "arr" =>
                   \A c \in 1..Len(calls.a) :
                       \E n \in (m + 1)..Len(convertedMessages) :
                           /\ Field(convertedMessages[n], "role") = Str(S_tool)
                           /\ Field(convertedMessages[n], "tool_call_id") = Field(calls.a[c], "id")

PlainRoles == {Str(S_system), Str(S_user), Str(S_assistant), Str(S_function), Str(S_developer)}

\* C4: every message of the output is an assistant message with tool_calls,
\* a message with role "tool" and a tool_call_id, or a {role, content}
\* message whose role is system, user, assistant, function or developer.
C4_OutputShapes ==
    \A n \in 1..Len(convertedMessages) :
        LET m == convertedMessages[n]
        IN \/ /\ DOMAIN m.f = {"role", "content", "tool_calls"}
              /\ m.f["role"] = Str(S_assistant)
           \/ /\ DOMAIN m.f = {"role", "content", "tool_call_id"}
              /\ m.f["role"] = Str(S_tool)
           \/ /\ DOMAIN m.f = {"role", "content"}
              /\ m.f["role"] \in PlainRoles

\* the content of the message is empty or whitespace after normalization
NormalizesToBlank(msg) == Trim(convertMessageContent(Field(msg, "content")).s) = <<>>

\* this step is one iteration of the loop
Iteration == pc = "convertMessages" /\ i < Len(inputMessages) /\ i' = i + 1

\* this step appends a message with role "tool" and a tool_call_id
EmitsToolResponse ==
    /\ Len(convertedMessages') = Len(convertedMessages) + 1
    /\ "tool_call_id" \in DOMAIN convertedMessages'[Len(convertedMessages')].f

\* C5 as stated: an iteration for a message whose normalized content is
\* empty or whitespace-only, and which is not emitted as a tool response,
\* emits nothing.
C5_ContentDrop ==
    [][(Iteration /\ NormalizesToBlank(inputMessages[i + 1]) /\ ~EmitsToolResponse)
           => convertedMessages' = convertedMessages]_vars

\* the message is an assistant message with a non-empty tool_calls array
CarriesToolCalls(msg) ==
    /\ Field(msg, "role") = Str(S_assistant)
    /\ Field(msg, "tool_calls").k = "arr"
    /\ Field(msg, "tool_calls").a # <<>>

\* C5 as amended: an iteration for a message whose normalized content is
\* empty or whitespace-only, which is not an assistant message with tool
\* calls and is not emitted as a tool response, emits nothing.
C5_ContentDropAmended ==
    [][(Iteration /\ NormalizesToBlank(inputMessages[i + 1])
            /\ ~CarriesToolCalls(inputMessages[i + 1]) /\ ~EmitsToolResponse)
           => convertedMessages' = convertedMessages]_vars

\* a whitespace-only message of a role that is not allowed met an empty queue
\* and left no message in the output, after a message that did
C5_Witness ==
    /\ i = 2
    /\ Len(convertedMessages) = 1
    /\ "tool_call_id" \notin DOMAIN convertedMessages[1].f
    /\ NormalizesToBlank(inputMessages[2])
    /\ Field(inputMessages[2], "role") = Str(S_tool_node)
    /\ Field(inputMessages[2], "content") = Str(S_blank)
    /\ pendingToolCallIds = <<>>


(***************************************************************************)
(* buildToolNameMap on tool lists whose records share names and aliases.   *)
(***************************************************************************)

\* legacy records, target-shaped records, and one list element that is null
NamedTools ==
    {Obj(("name" :> Str(S_search)) @@ ("alias" :> Str(S_web_search))),
     Obj(("name" :> Str(S_search)) @@ ("alias" :> Str(S_lookup))),
     Obj("name" :> Str(S_search)),
     Obj(("name" :> Str(S_lookup)) @@ ("alias" :> Str(S_search))),
     Obj("alias" :> Str(S_web_search)),
     Obj(EmptyObject),
     Obj(("name" :> Null) @@ ("alias" :> Str(S_empty))),
     Obj(("type" :> Str(S_function)) @@ ("function" :> Obj("name" :> Str(S_search)))),
     Obj(("type" :> Str(S_function)) @@ ("function" :> Obj(EmptyObject))
           @@ ("name" :> Str(S_lookup))),
     Obj(("name" :> Str(S_proto)) @@ ("alias" :> Str(S_lookup))),
     Null}

\* buildToolNameMap(inputTools) is called on the tool list `trees`
InitNameMap ==
    /\ \E trees \in ListsUpTo(NamedTools, MaxTools) :
           LET r == AllocList(<<>>, trees, <<>>)
           IN /\ heap = r.h
              /\ inputHeap = r.h
              /\ inputTools = r.v
    /\ pc = "buildToolNameMap"
    /\ convertedTools = <<>>
    /\ IdleMessages
    /\ IdlePage

\* the call runs to its return
BuildToolNameMap ==
    /\ pc = "buildToolNameMap"
    /\ \A n \in 1..Len(inputTools) : ~ToolThrows(inputTools[n])
    /\ toolNameMap' = buildToolNameMap(heap, inputTools)
    /\ pc' = "done"
    /\ UNCHANGED toolVars
    /\ UNCHANGED <<inputMessages, i, convertedMessages, pendingToolCallIds, clock>>
    /\ UNCHANGED pageVars

\* tool.type of a null tool throws, and the call returns nothing
BuildToolNameMapThrow ==
    /\ pc = "buildToolNameMap"
    /\ \E n \in 1..Len(inputTools) : ToolThrows(inputTools[n])
    /\ pc' = "threw"
    /\ UNCHANGED toolVars
    /\ UNCHANGED msgVars
    /\ UNCHANGED pageVars

NextNameMap == BuildToolNameMap \/ BuildToolNameMapThrow

SpecNameMap == InitNameMap /\ [][NextNameMap]_vars

\* record number n is target-shaped and its function has a name
NamedTarget(n) ==
    /\ TargetShaped(inputHeap, inputTools[n])
    /\ Truthy(Prop(inputHeap, Prop(inputHeap, inputTools[n], "function"), "name"))

\* the names record number n is to be found under
NamesOf(n) ==
    IF NamedTarget(n)
    THEN {Prop(inputHeap, Prop(inputHeap, inputTools[n], "function"), "name")}
    ELSE {v \in {Prop(inputHeap, inputTools[n], "name"), Prop(inputHeap, inputTools[n], "alias")} :
              Truthy(v)}

\* the name record number n is to be mapped to
MappedName(n) ==
    IF NamedTarget(n)
    THEN Prop(inputHeap, Prop(inputHeap, inputTools[n], "function"), "name")
    ELSE CanonicalName(inputHeap, inputTools[n])

\* the own property of the returned map under the name v
OwnEntry(v) ==
    IF Concat(v.s) \in DOMAIN toolNameMap THEN toolNameMap[Concat(v.s)] ELSE Undefined

LastWriter(v) ==
    CHOOSE n \in 1..Len(inputTools) :
        /\ v \in NamesOf(n)
        /\ \A m \in 1..Len(inputTools) : v \in NamesOf(m) => m <= n

S_constructor == <<"c", "o", "n", "s", "t", "r", "u", "c", "t", "o", "r">>
S_stars == <<"*", "*">>

\* "Executed **search**", "executed ** lookup **", "Executed **constructor**"
ExecutedTexts ==
    {S_Executed \o S_search \o S_stars,
     [n \in 1..Len(S_Executed) |-> ToLower(S_Executed[n])] \o <<" ">> \o S_lookup
         \o <<" ">> \o S_stars,
     S_Executed \o S_constructor \o S_stars}

\* one call in the KeyStudio style and in the OpenAI style, under each name
NamedCalls ==
    {Obj(("id" :> Str(S_a)) @@ ("name" :> Str(name))) : name \in {S_search, S_lookup, S_constructor}}
    \cup {Obj(("id" :> Str(S_a)) @@ ("type" :> Str(S_function))
               @@ ("function" :> Obj(("name" :> Str(name)) @@ ("arguments" :> Str(S_x))))) :
              name \in {S_search, S_lookup, S_constructor}}

ResolveMessages ==
    {Obj(("role" :> Str(S_assistant)) @@ ("tool_calls" :> Arr(<<call>>))) : call \in NamedCalls}
    \cup {Obj(("role" :> Str(S_tool_node)) @@ ("content" :> Str(text))) :
              text \in ExecutedTexts \cup {S_hi}}
    \cup {Obj(("role" :> Str(S_user)) @@ ("content" :> Str(S_hi)))}

\* convertMessages(messages, map) is called
CallConvertMessages(messages, map) ==
    /\ pc = "convertMessages"
    /\ inputMessages = messages
    /\ toolNameMap = map
    /\ i = 0
    /\ convertedMessages = <<>>
    /\ pendingToolCallIds = <<>>
    /\ clock = 0
    /\ IdleTools
    /\ IdlePage

InitResolve ==
    \E messages \in ListsUpTo(ResolveMessages, MaxMsgs) :
        CallConvertMessages(messages, SearchNameMap)

SpecResolve == InitResolve /\ [][NextMessages]_vars

\* the name is a key of the NameMap
IsKey(name) == Concat(JSString(name)) \in DOMAIN toolNameMap

\* the NameMap value of the name if it is a key, else the name
ValueOrName(name) == IF IsKey(name) THEN toolNameMap[Concat(JSString(name))] ELSE name

\* the name between "Executed **" and "**" in the normalized content of the
\* message after message number outer: <<name>>, or <<>> if there is none
CapturedName(outer) ==
    IF outer + 2 <= Len(inputMessages)
    THEN LET executedMatch ==
                 ExecutedMatch(convertMessageContent(Field(inputMessages[outer + 2], "content")).s)
         IN IF executedMatch = <<>> THEN <<>> ELSE <<Str(Trim(executedMatch[1]))>>
    ELSE <<>>

\* the name the call of message number outer is to be emitted under
ResolvedName(call, outer) ==
    LET rawName == RawCall(call).name
    IN IF IsKey(rawName) THEN toolNameMap[Concat(JSString(rawName))]
       ELSE IF CapturedName(outer) # <<>> THEN ValueOrName(CapturedName(outer)[1])
       ELSE rawName

\* C12: the iteration for an assistant message with tool calls emits every
\* call under the NameMap value of its raw name if that is a key, else
\* under the resolution of the name captured from the following message if
\* its content matches Executed **<name>**, else under the raw name; the
\* transcript is left as it is and the following message is the next one
\* processed.
C12_NameResolution ==
    [][(Iteration /\ HasToolCalls(inputMessages[i + 1])) =>
           /\ inputMessages' = inputMessages
           /\ Len(convertedMessages') = Len(convertedMessages) + 1
           /\ LET calls == Field(inputMessages[i + 1], "tool_calls").a
                  emitted == Field(convertedMessages'[Len(convertedMessages')], "tool_calls")
              IN /\ emitted.k = "arr"
                 /\ Len(emitted.a) = Len(calls)
                 /\ \A idx \in 1..Len(calls) :
                        Field(Field(emitted.a[idx], "function"), "name")
                            = ResolvedName(calls[idx], i)]_vars

(***************************************************************************)
(* Pairing of calls and responses: convertMessages on transcripts in which *)
(* assistant messages with one or two calls are followed by messages of a  *)
(* role that is not allowed, with the hints tool and script and without.   *)
(***************************************************************************)
PairingCalls ==
    {<<Obj(("id" :> Str(S_a)) @@ ("name" :> Str(S_search)))>>,
     <<Obj(("id" :> Str(S_a)) @@ ("name" :> Str(S_search))),
       Obj(("id" :> Str(S_x)) @@ ("name" :> Str(S_search)))>>,
     <<Obj("name" :> Str(S_search))>>,
     <<Obj("name" :> Str(S_search)), Obj("name" :> Str(S_search))>>}

PairingMessages ==
    {Obj(("role" :> Str(S_assistant)) @@ ("tool_calls" :> Arr(calls))) : calls \in PairingCalls}
    \cup {Obj(("role" :> Str(S_tool_node)) @@ ("content" :> Str(content))) :
              content \in {S_hi, S_blank}}
    \cup {Obj(("role" :> Str(S_tool_node)) @@ ("content" :> Str(content)) @@ Hint(nodeType)) :
              content \in {S_hi, S_blank}, nodeType \in {S_tool, S_script}}
    \cup {Obj(("role" :> Str(S_tool_node)) @@ ("content" :> Str(S_hi)) @@ Hint(S_llm)),
          Obj(("role" :> Str(S_user)) @@ ("content" :> Str(S_hi)))}

InitPairing ==
    \E messages \in ListsUpTo(PairingMessages, MaxMsgs) :
        CallConvertMessages(messages, SearchNameMap)

SpecPairing == InitPairing /\ [][NextMessages]_vars

\* the message has a role that is not allowed and the hint tool, script or none
AnswersCall(msg) ==
    /\ Field(msg, "role") \notin allowedRoles
    /\ \/ ~Truthy(Field(Field(Field(msg, "additional_kwargs"), "node_metadata"), "nodeType"))
       \/ Field(Field(Field(msg, "additional_kwargs"), "node_metadata"), "nodeType")
              \in {Str(S_tool), Str(S_script)}

\* message number p is an assistant message with k tool calls, and the k
\* messages after it answer calls
CallsThenAnswers(p, k) ==
    /\ p + k <= Len(inputMessages)
    /\ CarriesToolCalls(inputMessages[p])
    /\ Len(Field(inputMessages[p], "tool_calls").a) = k
    /\ \A j \in 1..k : AnswersCall(inputMessages[p + j])

\* no message before message number p carries tool calls: the pending queue
\* is empty when message number p is reached
QueueEmptyAt(p) == \A j \in 1..(p - 1) : ~CarriesToolCalls(inputMessages[j])

\* the number of messages in the output when message number p is reached
\* with no message carrying tool calls before it
EmittedBefore(p) == Cardinality({j \in 1..(p - 1) : ~NormalizesToBlank(inputMessages[j])})

\* C13: when an assistant message with k tool calls, reached with an empty
\* pending queue, is followed by k messages of a role that is not allowed
\* with the hint tool, script or none, the output for these k + 1 messages
\* is the assistant message with k tool_calls followed by k tool messages
\* that carry the ids of the calls in call order and the normalized content
\* of their source messages, and the pending queue is empty afterwards.
C13_CallsAnsweredInOrder ==
    \A p \in 1..Len(inputMessages) : \A k \in 1..Len(inputMessages) :
        (CallsThenAnswers(p, k) /\ QueueEmptyAt(p) /\ i >= p + k) =>
            LET base == EmittedBefore(p)
                calls == Field(inputMessages[p], "tool_calls").a
            IN /\ Len(convertedMessages) >= base + 1 + k
               /\ Field(convertedMessages[base + 1], "role") = Str(S_assistant)
               /\ Field(convertedMessages[base + 1], "tool_calls").k = "arr"
               /\ Len(Field(convertedMessages[base + 1], "tool_calls").a) = k
               /\ \A j \in 1..k :
                      LET emitted == Field(convertedMessages[base + 1], "tool_calls").a[j]
                      IN /\ Truthy(Field(calls[j], "id")) =>
                                Field(emitted, "id") = Field(calls[j], "id")
                         /\ convertedMessages[base + 1 + j] =
                                Obj(("role" :> Str(S_tool))
                                    @@ ("tool_call_id" :> Field(emitted, "id"))
                                    @@ ("content" :> convertMessageContent(
                                            Field(inputMessages[p + j], "content"))))
               /\ i = p + k => pendingToolCallIds = <<>>

\* two calls with the ids a and x were answered by a message with the hint
\* script and a whitespace-only message without a hint
C13_Witness ==
    /\ pc = "done"
    /\ Len(inputMessages) = 3
    /\ CallsThenAnswers(1, 2)
    /\ Field(Field(inputMessages[1], "tool_calls").a[2], "id") = Str(S_x)
    /\ NodeType(inputMessages[2]) = Str(S_script)
    /\ NodeType(inputMessages[3]) = Undefined
    /\ Field(inputMessages[3], "content") = Str(S_blank)
    /\ Len(convertedMessages) = 3
    /\ Field(convertedMessages[2], "tool_call_id") = Str(S_a)
    /\ Field(convertedMessages[3], "tool_call_id") = Str(S_x)
    /\ pendingToolCallIds = <<>>

(***************************************************************************)
(* The conversion as generateCurl runs it: convertTools, buildToolNameMap  *)
(* and convertMessages, on tool lists and transcripts whose records miss   *)
(* optional fields or hold null in them, and on lists with a null element. *)
(***************************************************************************)

\* tool.type of a null tool throws inside the callback of inputTools.map
ConvertToolsThrow ==
    /\ pc = "convertTools"
    /\ Len(convertedTools) < Len(inputTools)
    /\ ToolThrows(inputTools[Len(convertedTools) + 1])
    /\ pc' = "threw"
    /\ UNCHANGED toolVars
    /\ UNCHANGED msgVars
    /\ UNCHANGED pageVars

\* convertTools has returned: buildToolNameMap(inputTools) runs, and
\* convertMessages(inputMessages, toolNameMap) is called
BuildToolNameMapAndConvert ==
    /\ pc = "convertTools"
    /\ Len(convertedTools) = Len(inputTools)
    /\ toolNameMap' = buildToolNameMap(heap, inputTools)
    /\ pc' = "convertMessages"
    /\ UNCHANGED toolVars
    /\ UNCHANGED <<inputMessages, i, convertedMessages, pendingToolCallIds, clock>>
    /\ UNCHANGED pageVars

\* an iteration of convertMessages throws a TypeError
ConvertMessagesThrow ==
    /\ pc = "convertMessages"
    /\ i < Len(inputMessages)
    /\ MessageThrows(i, inputMessages, toolNameMap)
    /\ pc' = "threw"
    /\ UNCHANGED toolVars
    /\ UNCHANGED msgVars
    /\ UNCHANGED pageVars

NextConversion ==
    \/ ConvertToolsMap
    \/ ConvertToolsThrow
    \/ BuildToolNameMapAndConvert
    \/ AssistantToolCalls
    \/ ToolResponse
    \/ PlainMessage
    \/ ConvertMessagesThrow
    \/ ConvertMessagesReturn

\* tool records with optional fields missing or null, and null
TolerantTools ==
    {Obj(EmptyObject),
     Obj(("name" :> Null) @@ ("alias" :> Null) @@ ("description" :> Null) @@ ("config" :> Null)
           @@ ("function" :> Null)),
     Obj(("name" :> Str(S_search)) @@ ("config" :> Obj(EmptyObject))),
     Obj(("name" :> Str(S_search)) @@ ("config" :> Obj("schema" :> Null))),
     Obj(("type" :> Str(S_function)) @@ ("function" :> Null)),
     Obj(("alias" :> Str(S_web_search)) @@ ("function" :> Obj(EmptyObject))),
     Obj(("name" :> Str(S_search)) @@ ("alias" :> Str(S_web_search)) @@ ("description" :> Str(S_d))
           @@ ("config" :> Obj("schema" :> Obj("type" :> Str(S_object))))),
     Null}

\* messages with optional fields missing or null, and a null message, a
\* null call and a null content item
TolerantMessages ==
    {Obj(EmptyObject),
     Obj(("role" :> Null) @@ ("content" :> Null) @@ ("tool_calls" :> Null)
           @@ ("additional_kwargs" :> Null)),
     Obj(("role" :> Str(S_assistant)) @@ ("tool_calls" :> Arr(<<Obj(EmptyObject)>>))),
     Obj(("role" :> Str(S_assistant)) @@ ("content" :> Null)
           @@ ("tool_calls" :> Arr(<<Obj(("id" :> Null) @@ ("name" :> Null) @@ ("args" :> Null)
                                          @@ ("function" :> Null))>>))),
     Obj(("role" :> Str(S_assistant))
           @@ ("tool_calls" :> Arr(<<Obj(("name" :> Str(S_search)) @@ ("function" :> Obj(EmptyObject)))>>))),
     Obj(("role" :> Str(S_tool_node)) @@ ("content" :> Str(S_hi))
           @@ ("additional_kwargs" :> Obj(EmptyObject))),
     Obj(("role" :> Str(S_tool_node)) @@ ("content" :> Str(S_hi))
           @@ ("additional_kwargs" :> Obj("node_metadata" :> Null))),
     Obj(("content" :> Str(S_hi))
           @@ ("additional_kwargs" :> Obj("node_metadata" :> Obj("nodeType" :> Null)))),
     Obj(("role" :> Str(S_user)) @@ ("content" :> Str(S_hi))),
     Null,
     Obj(("role" :> Str(S_assistant)) @@ ("tool_calls" :> Arr(<<Null>>))),
     Obj(("role" :> Str(S_user)) @@ ("content" :> Arr(<<Null>>)))}

\* the tool list and the transcript are parsed and convertTools is called
CallConversion(trees, messages) ==
    /\ CallConvertTools(trees)
    /\ inputMessages = messages
    /\ toolNameMap = EmptyObject
    /\ i = 0
    /\ convertedMessages = <<>>
    /\ pendingToolCallIds = <<>>
    /\ clock = 0
    /\ IdlePage

InitTolerant ==
    \E trees \in ListsUpTo(TolerantTools, MaxTools - 1) :
        \E messages \in ListsUpTo(TolerantMessages, MaxMsgs - 1) :
            CallConversion(trees, messages)

SpecTolerant == InitTolerant /\ [][NextConversion]_vars

\* every tool and every message is a record, and so is every element of a
\* tool_calls array and of a content array
RecordsOnly ==
    /\ \A n \in 1..Len(inputTools) : inputTools[n].k = "ref"
    /\ \A n \in 1..Len(inputMessages) :
           LET msg == inputMessages[n]
           IN /\ msg.k = "obj"
              /\ \A key \in {"tool_calls", "content"} :
                     Field(msg, key).k = "arr" =>
                         \A m \in 1..Len(Field(msg, key).a) : Field(msg, key).a[m].k = "obj"

\* C14: on tool lists and transcripts whose elements are records, with any
\* optional field missing or null, convertTools, buildToolNameMap and
\* convertMessages raise no error, and each returns a result: one tool per
\* record, a map, and a list of messages.
C14_MissingFieldsTolerated ==
    RecordsOnly =>
        /\ pc # "threw"
        /\ pc \in {"convertMessages", "done"} =>
               /\ Len(convertedTools) = Len(inputTools)
               /\ \A n \in 1..Len(convertedTools) : convertedTools[n].k = "ref"
        /\ pc = "done" => i = Len(inputMessages)

\* the conversion returned for a tool with every optional field null and a
\* transcript of a message with every optional field null and an assistant
\* message whose call has every optional field null
C14_Witness ==
    /\ pc = "done"
    /\ RecordsOnly
    /\ Len(inputTools) = 1
    /\ Prop(inputHeap, inputTools[1], "config") = Null
    /\ Prop(inputHeap, inputTools[1], "function") = Null
    /\ Len(inputMessages) = 2
    /\ Field(inputMessages[1], "additional_kwargs") = Null
    /\ Field(inputMessages[1], "role") = Null
    /\ HasToolCalls(inputMessages[2])
    /\ Field(Field(inputMessages[2], "tool_calls").a[1], "function") = Null
    /\ Len(convertedMessages) = 1

(***************************************************************************)
(* Two runs of the conversion on the same tool list and transcript.        *)
(***************************************************************************)

\* what the three functions returned
Outputs ==
    Obj(("convertedTools" :> Arr([n \in 1..Len(convertedTools) |-> Deref(heap, convertedTools[n])]))
        @@ ("toolNameMap" :> Obj(toolNameMap))
        @@ ("convertedMessages" :> Arr(convertedMessages)))

\* the conversion has returned and is run a second time on the same inputs,
\* now or later
ConvertAgain ==
    /\ pc = "done"
    /\ previousRun = Undefined
    /\ previousRun' = Outputs
    /\ pc' = "convertTools"
    /\ convertedTools' = <<>>
    /\ toolNameMap' = EmptyObject
    /\ i' = 0
    /\ convertedMessages' = <<>>
    /\ pendingToolCallIds' = <<>>
    /\ clock' \in clock..MaxNow
    /\ UNCHANGED <<heap, inputHeap, inputTools, inputMessages, form, page, requestBody>>

NextTwice ==
    \/ ConvertToolsMap
    \/ BuildToolNameMapAndConvert
    \/ AssistantToolCalls
    \/ ToolResponse
    \/ PlainMessage
    \/ ConvertMessagesReturn
    \/ ConvertAgain

\* the tool list [] or [{name: "search", alias: "web_search", ...}]
SearchTools ==
    {Obj(("name" :> Str(S_search)) @@ ("alias" :> Str(S_web_search)) @@ ("description" :> Str(S_d))
           @@ ("config" :> Obj("schema" :> Obj(("type" :> Str(S_object))
                                                 @@ ("additionalProperties" :> Bool(FALSE))))))}

InitTwice ==
    \E trees \in ListsUpTo(SearchTools, MaxTools - 1) :
        \E messages \in ListsUpTo(PairingMessages, MaxMsgs - 1) :
            CallConversion(trees, messages)

SpecTwice == InitTwice /\ [][NextTwice]_vars

\* C15: a second run of convertTools, buildToolNameMap and convertMessages
\* on the same tool list and transcript, at the same or a later time,
\* returns what the first run returned, the ids of the tool calls and the
\* tool_call_id of the tool responses included.
C15_Deterministic ==
    (pc = "done" /\ previousRun # Undefined) => Outputs = previousRun

(***************************************************************************)
(* generateCurl: the page, the form, and the functions it calls.  The text *)
(* of an output is kept as the generator and the values it prints; the     *)
(* endpoint, version, key and host of the form reach only the text of the  *)
(* commands and are left out.  Reads of the page's elements do not throw.  *)
(***************************************************************************)
S_auto == <<"a", "u", "t", "o">>
S_required == <<"r", "e", "q", "u", "i", "r", "e", "d">>
S_zero == <<"0">>
S_zero_7 == <<"0", ".", "7">>
S_one == <<"1">>
S_abc == <<"a", "b", "c">>

\* the number t / 10
Tenths(t) == [k |-> "num", n |-> t, per |-> 10]

\* the value of the digit c
DigitValue(c) == (CHOOSE n \in 1..10 : DigitChars[n] = c) - 1

IsDigit(c) == \E n \in 1..10 : DigitChars[n] = c

\* the number of digits the text starts with
RECURSIVE DigitRun(_)
DigitRun(chars) ==
    IF chars # <<>> /\ IsDigit(Head(chars)) THEN 1 + DigitRun(Tail(chars)) ELSE 0

\* the value of a text of digits
RECURSIVE NaturalValue(_)
NaturalValue(chars) ==
    IF chars = <<>> THEN 0
    ELSE 10 * NaturalValue(SubSeq(chars, 1, Len(chars) - 1)) + DigitValue(chars[Len(chars)])

\* parseFloat(text), for texts without a sign or an exponent and with at
\* most one digit after the point: the longest numeric prefix, else NaN
parseFloat(text) ==
    LET chars == TrimStart(text)
        whole == DigitRun(chars)
        rest == SubSeq(chars, whole + 1, Len(chars))
        fraction == IF rest # <<>> /\ Head(rest) = "." THEN DigitRun(Tail(rest)) ELSE 0
    IN IF whole = 0 /\ fraction = 0 THEN NaN
       ELSE Tenths(10 * NaturalValue(SubSeq(chars, 1, whole))
                   + (IF fraction = 0 THEN 0 ELSE DigitValue(rest[2])))

\* getConfig(), for the fields that reach the request body
getConfig(f) ==
    [temperature |-> OrElse(parseFloat(f.temperature), Tenths(1)),
     topP |-> OrElse(parseFloat(f.topP), Tenths(1)),
     toolChoice |-> OrElse(Str(f.toolChoice), Str(S_auto))]

generateRequestBody(config, messages, tools) ==
    Obj(("temperature" :> config.temperature) @@ ("top_p" :> config.topP)
        @@ ("tool_choice" :> config.toolChoice) @@ ("messages" :> messages)
        @@ ("tools" :> tools))

\* the texts of the three outputs
BodyJSON(body) == [of |-> "JSON.stringify", requestBody |-> body]
generateCurlCommand(config, body) == [of |-> "curl", requestBody |-> body]
generatePowerShellCommand(config, body) == [of |-> "Invoke-RestMethod", requestBody |-> body]

\* the value of a textarea: blank, or a text that JSON.parse rejects
\* (parsed = <<>>), or the text of the JSON value parsed[1]
Blank == [blank |-> TRUE, parsed |-> <<>>]
NotJSON == [blank |-> FALSE, parsed |-> <<>>]
JSONText(tree) == [blank |-> FALSE, parsed |-> <<tree>>]

\* validateJSON(inputId, badgeId): the value returned and the badge
validateJSON(value) ==
    IF value.blank
    THEN [parsed |-> Null, badge |-> [text |-> "Paste JSON array", className |-> "validation-badge"]]
    ELSE IF value.parsed = <<>>
    THEN [parsed |-> Null,
          badge |-> [text |-> "Invalid JSON", className |-> "validation-badge invalid"]]
    ELSE IF value.parsed[1].k = "arr"
    THEN [parsed |-> value.parsed[1],
          badge |-> [text |-> "Valid (items)", items |-> Len(value.parsed[1].a),
                     className |-> "validation-badge valid"]]
    ELSE [parsed |-> Null,
          badge |-> [text |-> "Must be an array", className |-> "validation-badge invalid"]]

\* showError(message)
showError(p, message) == [p EXCEPT !.errorMessage = message, !.errorSection = "block"]

\* a variant that hides the error section only
HideErrorOnly(p) == [p EXCEPT !.errorSection = "none"]

\* Hide previous outputs/errors
HidePrevious(p) == [p EXCEPT !.outputSection = "none", !.errorSection = "none"]

ToolsError == [text |-> "Please enter valid Tools JSON array"]
MessagesError == [text |-> "Please enter valid Messages JSON array"]
NoMessagesError == [text |-> "No valid messages found after conversion. Please check your input."]
CaughtError == [text |-> "Error generating curl: ", error |-> TypeError]

\* the page before any run, after a run that showed its outputs, and after
\* a run that showed an error
EarlierText == [of |-> "an earlier run"]
NoText == [text |-> ""]
NoBadge == [text |-> "", className |-> "validation-badge"]

FreshPage ==
    [outputSection |-> "", errorSection |-> "", errorMessage |-> NoText,
     bodyOutput |-> NoText, curlOutput |-> NoText, psOutput |-> NoText,
     toolsValidation |-> NoBadge, messagesValidation |-> NoBadge, toast |-> NoText]

Pages ==
    {FreshPage,
     [FreshPage EXCEPT !.outputSection = "flex", !.errorSection = "none",
                       !.bodyOutput = EarlierText, !.curlOutput = EarlierText,
                       !.psOutput = EarlierText],
     [FreshPage EXCEPT !.outputSection = "none", !.errorSection = "block",
                       !.errorMessage = ToolsError]}

\* what the textareas hold
GenerateTools == {Obj(("name" :> Str(S_search)) @@ ("alias" :> Str(S_web_search))), Null}

GenerateMessages ==
    {Obj(("role" :> Str(S_user)) @@ ("content" :> Str(S_hi))),
     Obj(("role" :> Str(S_tool_node)) @@ ("content" :> Str(S_blank))),
     Obj(("role" :> Str(S_assistant))
           @@ ("tool_calls" :> Arr(<<Obj(("id" :> Str(S_a)) @@ ("name" :> Str(S_search)))>>))),
     Null}

ToolsTexts ==
    {Blank, NotJSON, JSONText(Obj(EmptyObject))}
    \cup {JSONText(Arr(trees)) : trees \in ListsUpTo(GenerateTools, MaxTools - 1)}

MessagesTexts ==
    {Blank, NotJSON}
    \cup {JSONText(Arr(messages)) : messages \in ListsUpTo(GenerateMessages, MaxMsgs - 1)}

Forms ==
    [toolsInput : ToolsTexts, messagesInput : MessagesTexts,
     temperature : {S_empty, S_zero, S_zero_7, S_abc},
     topP : {S_empty, S_zero, S_one},
     toolChoice : {S_empty, S_required}]

\* the page is loaded and the form is filled in
InitGenerate ==
    /\ pc = "idle"
    /\ form \in Forms
    /\ page \in Pages
    /\ requestBody = Undefined
    /\ previousRun = Undefined
    /\ IdleTools
    /\ IdleMessages

\* the button is clicked: the sections are hidden and the two texts are
\* validated; the conversion starts if both are arrays
GenerateCurl ==
    /\ pc = "idle"
    /\ LET tools == validateJSON(form.toolsInput)
           messages == validateJSON(form.messagesInput)
           checkedTools == [HidePrevious(page) EXCEPT !.toolsValidation = tools.badge]
           checkedBoth == [checkedTools EXCEPT !.messagesValidation = messages.badge]
       IN IF tools.parsed = Null
          THEN /\ page' = showError(checkedTools, ToolsError)
               /\ pc' = "done"
               /\ UNCHANGED <<heap, inputHeap, inputTools, inputMessages>>
          ELSE IF messages.parsed = Null
          THEN /\ page' = showError(checkedBoth, MessagesError)
               /\ pc' = "done"
               /\ UNCHANGED <<heap, inputHeap, inputTools, inputMessages>>
          ELSE LET r == AllocList(<<>>, tools.parsed.a, <<>>)
               IN /\ page' = checkedBoth
                  /\ pc' = "convertTools"
                  /\ heap' = r.h
                  /\ inputHeap' = r.h
                  /\ inputTools' = r.v
                  /\ inputMessages' = messages.parsed.a
    /\ UNCHANGED <<convertedTools, toolNameMap, i, convertedMessages, pendingToolCallIds, clock>>
    /\ UNCHANGED <<form, requestBody, previousRun>>

\* convertMessages has returned: the error for an empty result, or the
\* request body, the three outputs, the output section and the toast
ShowOutputs ==
    /\ pc = "convertMessages"
    /\ i = Len(inputMessages)
    /\ IF Len(convertedMessages) = 0
       THEN /\ page' = showError(page, NoMessagesError)
            /\ UNCHANGED requestBody
       ELSE LET config == getConfig(form)
                body == generateRequestBody(config, Arr(convertedMessages), Arr(convertedTools))
            IN /\ requestBody' = body
               /\ page' = [page EXCEPT !.bodyOutput = BodyJSON(body),
                                       !.curlOutput = generateCurlCommand(config, body),
                                       !.psOutput = generatePowerShellCommand(config, body),
                                       !.outputSection = "flex",
                                       !.toast = [text |-> "Generated! messages, tools",
                                                  messages |-> Len(convertedMessages),
                                                  tools |-> Len(convertedTools)]]
    /\ pc' = "done"
    /\ UNCHANGED toolVars
    /\ UNCHANGED msgVars
    /\ UNCHANGED <<form, previousRun>>

\* catch (error): showError('Error generating curl: ' + error.message)
CatchError ==
    /\ pc = "threw"
    /\ page' = showError(page, CaughtError)
    /\ pc' = "done"
    /\ UNCHANGED toolVars
    /\ UNCHANGED msgVars
    /\ UNCHANGED <<form, requestBody, previousRun>>

NextGenerate ==
    \/ GenerateCurl
    \/ ConvertToolsMap
    \/ ConvertToolsThrow
    \/ BuildToolNameMapAndConvert
    \/ AssistantToolCalls
    \/ ToolResponse
    \/ PlainMessage
    \/ ConvertMessagesThrow
    \/ ShowOutputs
    \/ CatchError

SpecGenerate == InitGenerate /\ [][NextGenerate]_vars

\* the end of a run of generateCurl
RunEnded == pc = "done"

\* what holds of the page in every state of a run (of the state before the
\* click it says nothing)
OutcomeOfRun ==
    /\ RunEnded => ~(page.outputSection = "flex" /\ page.errorSection = "block")
    /\ (RunEnded /\ page.errorSection = "block") => page.outputSection = "none"
    /\ pc \notin {"idle", "done"} => page.outputSection = "none" /\ page.errorSection = "none"
    /\ (RunEnded /\ page.outputSection = "flex") =>
           /\ Len(convertedMessages) > 0
           /\ requestBody # Undefined
           /\ Field(requestBody, "messages") = Arr(convertedMessages)
           /\ page.bodyOutput = [of |-> "JSON.stringify", requestBody |-> requestBody]
           /\ page.curlOutput = [of |-> "curl", requestBody |-> requestBody]
           /\ page.psOutput = [of |-> "Invoke-RestMethod", requestBody |-> requestBody]
    /\ RunEnded => page.outputSection = "flex" \/ page.errorSection = "block"

\* what the step after an empty result and the step after a throw do
OutcomeOfFailure ==
    /\ (pc = "convertMessages" /\ i = Len(inputMessages) /\ Len(convertedMessages) = 0) =>
           /\ pc' = "done"
           /\ page'.errorSection = "block"
           /\ page'.errorMessage
                  = [text |-> "No valid messages found after conversion. Please check your input."]
    /\ pc = "threw" =>
           /\ pc' = "done"
           /\ page'.errorSection = "block"
           /\ page'.errorMessage = [text |-> "Error generating curl: ", error |-> TypeError]
    /\ (page.outputSection # "flex" /\ page'.outputSection = "flex") =>
           /\ pc = "convertMessages" /\ i = Len(inputMessages) /\ Len(convertedMessages) > 0
           /\ page'.bodyOutput # page.bodyOutput
           /\ page'.curlOutput # page.curlOutput
           /\ page'.psOutput # page.psOutput

\* C16: a run of generateCurl with an empty reconstructed message sequence
\* ends in the error outcome without a throw; a run in which a step throws
\* ends in the error outcome with a message; a run that ends in the error
\* outcome leaves the output section hidden; the output section is made
\* visible only with the body, curl and PowerShell outputs of a non-empty
\* message sequence; the two sections are never both visible at the end.
C16_RunOutcome == [][OutcomeOfRun' /\ OutcomeOfFailure]_vars

\* the outputs of an earlier run were visible, a message was null, and the
\* run ended with the error of the catch clause and the outputs hidden
C16_Witness ==
    /\ pc = "done"
    /\ page.bodyOutput = EarlierText
    /\ page.outputSection = "none"
    /\ page.errorSection = "block"
    /\ page.errorMessage = CaughtError
    /\ Len(convertedTools) = Len(inputTools)
    /\ i < Len(inputMessages)

(***************************************************************************)
(* Content normalization: convertMessages on transcripts whose messages    *)
(* carry strings, arrays of items, objects, null, numbers and booleans.    *)
(***************************************************************************)
Contents ==
    {Str(S_hi), Str(S_empty), Null, Num(0), Num(5), Bool(FALSE), Bool(TRUE),
     Obj("q" :> Str(S_x)),
     Arr(<<Obj(("type" :> Str(S_text)) @@ ("text" :> Str(S_hi))),
           Obj(("type" :> Str(S_tool)) @@ ("text" :> Str(S_x))),
           Obj(("type" :> Str(S_text)) @@ ("text" :> Str(S_empty))),
           Obj(("type" :> Str(S_text)) @@ ("text" :> Str(S_a)))>>)}

ContentMessages ==
    {Obj(("role" :> Str(S_user)) @@ ("content" :> content)) : content \in Contents}
    \cup {Obj("role" :> Str(S_user))}
    \cup {Obj(("role" :> Str(S_assistant)) @@ ("content" :> content)
               @@ ("tool_calls" :> Arr(<<Obj(("id" :> Str(S_a)) @@ ("name" :> Str(S_search)))>>))) :
              content \in {Str(S_hi), Num(0)}}
    \cup {Obj(("role" :> Str(S_tool_node)) @@ ("content" :> content)) :
              content \in {Num(0), Bool(FALSE), Obj("q" :> Str(S_x))}}

InitContent ==
    \E messages \in ListsUpTo(ContentMessages, MaxMsgs - 1) :
        CallConvertMessages(messages, SearchNameMap)

SpecContent == InitContent /\ [][NextMessages]_vars

\* the text of the content: a string as it is, an array as the texts of
\* its text items joined by newlines, any other object as its JSON text,
\* null and undefined as the empty string, a number or boolean as its
\* string form
NormalizedText(content) ==
    CASE content.k = "str" -> content.s
      [] content.k = "arr" ->
             Join(SelectSeq([n \in 1..Len(content.a) |->
                                IF Field(content.a[n], "type") = Str(S_text)
                                      /\ Truthy(Field(content.a[n], "text"))
                                THEN JSString(Field(content.a[n], "text")) ELSE <<>>],
                            LAMBDA text : text # <<>>),
                  <<"\n">>)
      [] content.k = "obj" -> JSONStringify(content)
      [] content.k \in {"null", "undef"} -> <<>>
      [] OTHER -> JSString(content)

\* C17: convertMessageContent returns a string as it is, the newline-joined
\* text of the text items of an array, the JSON text of any other object,
\* the empty string for null and undefined, and the string form of every
\* number and boolean, 0 and false included: an iteration of convertMessages
\* emits its message with that text as content, and emits nothing only if
\* that text is blank.
C17_ContentNormalized ==
    [][Iteration =>
           LET expected == NormalizedText(Field(inputMessages[i + 1], "content"))
           IN IF Len(convertedMessages') > Len(convertedMessages)
              THEN Field(convertedMessages'[Len(convertedMessages')], "content") = Str(expected)
              ELSE Trim(expected) = <<>>]_vars

\* the number the user configured in a form element is in the field of the
\* request body, and 0.1 if the element is empty (of a text that is not a
\* number this says nothing)
ConfiguredNumber(text, field) ==
    IF text = <<>> THEN Field(requestBody, field) = Tenths(1)
    ELSE parseFloat(text) # NaN => Field(requestBody, field) = parseFloat(text)

\* C18: the request body has exactly the fields temperature, top_p,
\* tool_choice, messages, tools; temperature, top_p and tool_choice are the
\* values of the form, 0 included; 0.1, 0.1 and "auto" are used only for
\* an empty element.
C18_ConfigPassedThrough ==
    requestBody # Undefined =>
        /\ DOMAIN requestBody.f = {"temperature", "top_p", "tool_choice", "messages", "tools"}
        /\ ConfiguredNumber(form.temperature, "temperature")
        /\ ConfiguredNumber(form.topP, "top_p")
        /\ Field(requestBody, "tool_choice")
               = (IF form.toolChoice = <<>> THEN Str(S_auto) ELSE Str(form.toolChoice))
        /\ Field(requestBody, "messages") = Arr(convertedMessages)
        /\ Field(requestBody, "tools") = Arr(convertedTools)

(***************************************************************************)
(* Roles and hints: convertMessages on transcripts of messages of allowed  *)
(* roles and of a role that is not allowed, under every hint.              *)
(***************************************************************************)
HintedMessages ==
    {Obj(("role" :> Str(role)) @@ ("content" :> Str(S_hi))) : role \in {S_user, S_tool_node}}
    \cup {Obj(("role" :> Str(role)) @@ ("content" :> Str(S_hi)) @@ Hint(nodeType)) :
              role \in {S_user, S_tool_node},
              nodeType \in {S_tool, S_script, S_llm, S_agent, S_x}}
    \cup {Obj(("role" :> Str(S_tool)) @@ ("content" :> Str(S_hi)) @@ Hint(S_tool)),
          Obj(("role" :> Str(S_tool_node)) @@ ("content" :> Str(S_blank)))}
    \cup {Obj(("role" :> Str(S_assistant)) @@ ("tool_calls" :> Arr(calls))) :
              calls \in {<<Obj(("id" :> Str(S_a)) @@ ("name" :> Str(S_search)))>>,
                         <<Obj(("id" :> Str(S_a)) @@ ("name" :> Str(S_search))),
                           Obj(("id" :> Str(S_x)) @@ ("name" :> Str(S_search)))>>,
                         <<Obj("name" :> Str(S_search))>>}}

InitRoles ==
    \E messages \in ListsUpTo(HintedMessages, MaxMsgs) :
        CallConvertMessages(messages, SearchNameMap)

SpecRoles == InitRoles /\ [][NextMessages]_vars

\* the role of the message is one of the six roles of the target format
HasTargetRole(msg) ==
    Field(msg, "role") \in {Str(S_system), Str(S_user), Str(S_assistant), Str(S_tool),
                            Str(S_function), Str(S_developer)}

\* the hint of the message, undefined if a link to it is missing or null
HintOf(msg) == Field(Field(Field(msg, "additional_kwargs"), "node_metadata"), "nodeType")

\* the message is to pop the head of a non-empty queue
PopsHead(msg) ==
    /\ ~CarriesToolCalls(msg)
    /\ ~HasTargetRole(msg)
    /\ ~Truthy(HintOf(msg)) \/ HintOf(msg) \in {Str(S_tool), Str(S_script)}

\* C19: an iteration for an assistant message with tool calls appends one
\* id per call to the pending queue, in call order, and pops nothing; an
\* iteration for a message of a role that is not allowed, with the hint
\* tool, script or none, pops exactly the head when the queue is not
\* empty; every other iteration leaves the queue as it is and emits no
\* message with a tool_call_id.
C19_QueueEffects ==
    [][Iteration =>
           LET msg == inputMessages[i + 1]
           IN IF CarriesToolCalls(msg)
              THEN LET emitted == Field(convertedMessages'[Len(convertedMessages')], "tool_calls").a
                       calls == Field(msg, "tool_calls").a
                   IN /\ Len(emitted) = Len(calls)
                      /\ pendingToolCallIds' = pendingToolCallIds
                             \o [n \in 1..Len(calls) |-> Field(emitted[n], "id")]
                      /\ \A n \in 1..Len(calls) :
                             Truthy(Field(calls[n], "id")) =>
                                 Field(emitted[n], "id") = Field(calls[n], "id")
              ELSE IF PopsHead(msg) /\ pendingToolCallIds # <<>>
              THEN /\ pendingToolCallIds' = Tail(pendingToolCallIds)
                   /\ EmitsToolResponse
                   /\ Field(convertedMessages'[Len(convertedMessages')], "tool_call_id")
                          = Head(pendingToolCallIds)
              ELSE /\ pendingToolCallIds' = pendingToolCallIds
                   /\ ~EmitsToolResponse]_vars

\* a message of the allowed role tool with the hint tool, and then a
\* message of a role that is not allowed with the hint agent, left the two
\* pending ids in the queue
C19_Witness ==
    /\ pc = "done"
    /\ Len(inputMessages) = 3
    /\ CarriesToolCalls(inputMessages[1])
    /\ Len(Field(inputMessages[1], "tool_calls").a) = 2
    /\ Field(inputMessages[2], "role") = Str(S_tool)
    /\ HintOf(inputMessages[2]) = Str(S_tool)
    /\ Field(inputMessages[3], "role") = Str(S_tool_node)
    /\ HintOf(inputMessages[3]) = Str(S_agent)
    /\ pendingToolCallIds = <<Str(S_a), Str(S_x)>>
    /\ Len(convertedMessages) = 3

\* C20: an iteration for a message without tool calls that is not turned
\* into a tool response and has non-blank content emits the message under
\* its own role if that is an allowed role, and under the role assistant
\* in every other case; every message of the output has one of the six
\* allowed roles.
C20_PlainRole ==
    [][Iteration =>
           LET msg == inputMessages[i + 1]
           IN /\ (~CarriesToolCalls(msg) /\ ~EmitsToolResponse /\ ~NormalizesToBlank(msg)) =>
                     /\ Len(convertedMessages') = Len(convertedMessages) + 1
                     /\ Field(convertedMessages'[Len(convertedMessages')], "role")
                            = (IF HasTargetRole(msg) THEN Field(msg, "role") ELSE Str(S_assistant))
              /\ \A n \in 1..Len(convertedMessages') : HasTargetRole(convertedMessages'[n])]_vars

\* a message of a role that is not allowed, with the hint script, met an
\* empty queue and was emitted as assistant; a message of a role that is
\* not allowed, with the hint llm, was emitted as assistant; a message of
\* role user with the hint tool kept its role
C20_Witness ==
    /\ pc = "done"
    /\ Len(inputMessages) = 3
    /\ Field(inputMessages[1], "role") = Str(S_tool_node)
    /\ HintOf(inputMessages[1]) = Str(S_script)
    /\ Field(inputMessages[2], "role") = Str(S_tool_node)
    /\ HintOf(inputMessages[2]) = Str(S_llm)
    /\ Field(inputMessages[3], "role") = Str(S_user)
    /\ HintOf(inputMessages[3]) = Str(S_tool)
    /\ [n \in 1..3 |-> Field(convertedMessages[n], "role")]
           = <<Str(S_assistant), Str(S_assistant), Str(S_user)>>

(***************************************************************************)
(* The main loop of convertMessages.  A for loop does not stop between     *)
(* iterations, so the steps of the loop are taken under weak fairness.     *)
(***************************************************************************)
\* the control of the loop: for (let i = 0; i < messages.length; i++) runs
\* the body for the next message, and the return follows the last message.
\* A step of NextMessages from a state inside the call is a step of
\* LoopControl, and where no message throws LoopControl is enabled exactly
\* where one of the actions of NextMessages is: their other conjuncts assign
\* the remaining variables.
LoopControl ==
    /\ pc = "convertMessages"
    /\ \/ /\ i < Len(inputMessages)
          /\ i' = i + 1
          /\ pc' = pc
       \/ /\ i = Len(inputMessages)
          /\ i' = i
          /\ pc' = "done"

\* the body of the loop does not throw for the message the loop is at
BodyReturns ==
    (pc = "convertMessages" /\ i < Len(inputMessages))
        => ~MessageThrows(i, inputMessages, toolNameMap)

SpecPairingFair == InitPairing /\ [][NextMessages]_vars /\ WF_<<pc, i>>(LoopControl)

\* this step of the loop visits the next message and appends at most one
\* message to the output, or it is the return after the last message
LoopStep ==
    \/ /\ Iteration
       /\ inputMessages' = inputMessages
       /\ \/ convertedMessages' = convertedMessages
          \/ /\ Len(convertedMessages') = Len(convertedMessages) + 1
             /\ SubSeq(convertedMessages', 1, Len(convertedMessages)) = convertedMessages
    \/ /\ i = Len(inputMessages)
       /\ pc' = "done"
       /\ i' = i
       /\ convertedMessages' = convertedMessages
       /\ pendingToolCallIds' = pendingToolCallIds

InitPipelines ==
    \E trees \in ListsUpTo(NamedTools, MaxTools) : CallConversion(trees, <<>>)

NextPipelines ==
    \/ ConvertToolsMap
    \/ ConvertToolsThrow
    \/ BuildToolNameMapAndConvert
    \/ ConvertMessagesReturn

SpecPipelines == InitPipelines /\ [][NextPipelines]_vars

\* the function names of the tools convertTools returned
DeclaredNames ==
    {Prop(heap, Prop(heap, convertedTools[n], "function"), "name") : n \in 1..Len(convertedTools)}

\* C22: once convertTools and buildToolNameMap have run on the same tool
\* list, every value of the name map is the function.name of one of the
\* converted tools.
C22_PipelinesAgree ==
    pc \in {"convertMessages", "done"}
        => \A key \in DOMAIN toolNameMap : toolNameMap[key] \in DeclaredNames
====
